---- MODULE Spec2Model ----
(***************************************************************************)
(* Model of the retrieval / indexing / question-answering core of          *)
(* backend/app/services/rag_service.py (RAGService) and                    *)
(* backend/app/services/rag_qa_service.py (RAGQAService).                  *)
(*                                                                         *)
(* A text is a sequence of words; the string it stands for is the words    *)
(* joined by single blanks.  The vector store (Qdrant), the embedding      *)
(* endpoint, the local embedding model and the LLM completion endpoint are *)
(* external: every call to them has an outcome chosen by the environment.  *)
(* Progress values are exact fractions [num, den].                         *)
(***************************************************************************)
EXTENDS Integers, Sequences, FiniteSets, TLC

\* ------------------------------------------------------------------ bounds
MaxChunks == 2      \* chunks produced by one split_text call
MaxPoints == 3      \* points kept in the vector store
MaxSlots == 3       \* slots kept in the lexical index
MaxTopK == 2        \* largest top_k a caller passes
MaxLongChunks == 21 \* chunks of the longest text indexed into an empty store

Docs == {"d1", "d2"}
Unindexed == "d3"   \* a document id that is never indexed
IdLists == {<<>>, <<"d1">>, <<Unindexed>>, <<"d1", "d2">>}
QAIdLists == {<<>>, <<"d1">>, <<Unindexed>>}
\* split_text(text) for the document texts indexed here: a text of n chunks,
\* whose chunks alternate between the two chunk texts
SplitText(n) == [i \in 1..n |-> IF i % 2 = 1 THEN <<"A">> ELSE <<"a", "b">>]
DocTexts == {SplitText(n) : n \in 0..MaxChunks}
\* texts long enough for the preparation loop to report every second chunk
LoopStride == 10
LongTexts == {SplitText(n) : n \in (2 * LoopStride)..MaxLongChunks}
Questions == {<<"b", "A">>}

\* ------------------------------------------------------------- state
VARIABLES
    qdrant_client,          \* TRUE iff self.qdrant_client is not None
    embeddings_client,      \* TRUE iff self.embeddings_client is not None
    use_local_embeddings,   \* self.use_local_embeddings
    local_embeddings_model, \* TRUE iff self.local_embeddings_model is not None
    points,                 \* payloads of the points of the collection
    bm25_chunks,            \* self.bm25_chunks: token lists, one per slot
    bm25_chunk_map,         \* self.bm25_chunk_map: slot -> <<tid, idx, text>>
    bm25_index,             \* self.bm25_index: None or an index over a corpus
    qa_lexical,             \* the same three fields of the RAGService that
                            \* RAGQAService constructs for itself
    reranker_model,         \* RAGQAService.reranker_model: "None" or a model
    reranker_model_name,    \* RAGQAService.reranker_model_name
    op                      \* the call in progress or just finished: its
                            \* arguments, its position and what it produced

vars == <<qdrant_client, embeddings_client, use_local_embeddings,
          local_embeddings_model, points, bm25_chunks, bm25_chunk_map,
          bm25_index, qa_lexical, reranker_model, reranker_model_name, op>>

provider == <<qdrant_client, embeddings_client, use_local_embeddings,
              local_embeddings_model>>
lexical == <<bm25_chunks, bm25_chunk_map, bm25_index, qa_lexical>>
reranker == <<reranker_model, reranker_model_name>>

\* ------------------------------------------------------------- helpers
Min(a, b) == IF a <= b THEN a ELSE b
Max(a, b) == IF a >= b THEN a ELSE b

\* an exact fraction num/den with den > 0
Frac(n, d) == [num |-> n, den |-> d]
FracLeq(x, y) == x.num * y.den <= y.num * x.den
FracEq(x, y) == x.num * y.den = y.num * x.den

\* str.lower() on a word
Lower(w) == IF w = "A" THEN "a" ELSE w

\* chunk_text.lower().split(): the lower-cased words of the text
Tokenize(text) == [k \in 1..Len(text) |-> Lower(text[k])]

\* BM25Okapi(corpus): the index keeps the corpus it was built from
NoIndex == [present |-> FALSE, corpus |-> <<>>]
BM25Okapi(corpus) == [present |-> TRUE, corpus |-> corpus]

\* ------------------------------------------------ embedding provider
\* Outcome of one request to the remote endpoint or to the local model:
\* "ok" returns one vector per input, "short" one vector too few,
\* "empty" no vector at all, "fail" raises.
EmbedOutcomes == {"ok", "short", "empty", "fail"}

EmbedCount(outcome, n) ==
    CASE outcome = "ok" -> n
      [] outcome = "short" -> Max(n - 1, 0)
      [] OTHER -> 0

\* _generate_embeddings(texts) for n texts: the remote endpoint first, any
\* failure there falls through to the local model when one was selected,
\* otherwise ValueError.  A failure of the local model is re-raised.
GenerateEmbeddings(n, remote, local) ==
    IF embeddings_client /\ remote # "fail"
    THEN [raised |-> FALSE, count |-> EmbedCount(remote, n)]
    ELSE IF use_local_embeddings /\ local_embeddings_model
         THEN IF local # "fail"
              THEN [raised |-> FALSE, count |-> EmbedCount(local, n)]
              ELSE [raised |-> TRUE, count |-> 0]
         ELSE [raised |-> TRUE, count |-> 0]

\* ------------------------------------------------------ lexical index
\* _rebuild_bm25_index: slots from every point with a non-empty text; the
\* map is keyed by the position of the point in the scroll.
RECURSIVE RebuildChunks(_)
RebuildChunks(ps) ==
    IF ps = <<>> THEN <<>>
    ELSE LET rest == RebuildChunks(SubSeq(ps, 1, Len(ps) - 1))
             p == ps[Len(ps)]
         IN  IF p.chunk_text # <<>> THEN Append(rest, Tokenize(p.chunk_text))
             ELSE rest

RebuildMap(ps) ==
    [i \in {k - 1 : k \in {j \in 1..Len(ps) : ps[j].chunk_text # <<>>}} |->
        <<ps[i + 1].transcript_id, ps[i + 1].chunk_index, ps[i + 1].chunk_text>>]

\* _update_bm25_index(chunks, transcript_id): append one slot per chunk
\* that has tokens, key the map by the slot number, rebuild the index.
RECURSIVE UpdateBM25(_, _, _, _)
UpdateBM25(chs, map, chunks, tid) ==
    IF chunks = <<>> THEN [chunks |-> chs, map |-> map]
    ELSE LET n == Len(chunks)
             prev == UpdateBM25(chs, map, SubSeq(chunks, 1, n - 1), tid)
             tokens == Tokenize(chunks[n])
             idx == Len(prev.chunks)
         IN  IF tokens # <<>>
             THEN [chunks |-> Append(prev.chunks, tokens),
                   map |-> [s \in DOMAIN prev.map \cup {idx} |->
                              IF s = idx THEN <<tid, n - 1, chunks[n]>>
                              ELSE prev.map[s]]]
             ELSE prev

\* ------------------------------------------------ indexing orchestrator
Idle == [kind |-> "none", pc |-> "idle"]

\* progress_callback(v): the values passed so far in this run
Report(progress, with_cb, v) == IF with_cb THEN Append(progress, v) ELSE progress

\* The callbacks of the point-preparation loop for chunks 1..m of n:
\* after chunk i+1, when (i + 1) % max(1, n // 10) == 0, the value
\* 0.5 + 0.3 * (i + 1) / n.
LoopProgressOvershoot(m, n) ==
    [i \in 1..m |-> Frac(5 * n + 5 * i, 10 * n)]

RECURSIVE LoopProgress(_, _)
LoopProgress(m, n) ==
    IF m = 0 THEN <<>>
    ELSE IF m % Max(1, n \div LoopStride) = 0
         THEN Append(LoopProgress(m - 1, n), Frac(5 * n + 3 * m, 10 * n))
         ELSE LoopProgress(m - 1, n)

\* the points built from the chunks: payload transcript_id, chunk_text,
\* chunk_index (each under a fresh uuid4 id)
NewPoints(tid, chunks) ==
    [i \in 1..Len(chunks) |->
        [transcript_id |-> tid, chunk_index |-> i - 1, chunk_text |-> chunks[i]]]

DeleteByTranscriptKeepAll(ps, tid) == ps

\* qdrant delete with Filter(must=[transcript_id == tid])
DeleteByTranscript(ps, tid) == SelectSeq(ps, LAMBDA p : p.transcript_id # tid)

PointsOf(ps, tid) == SelectSeq(ps, LAMBDA p : p.transcript_id = tid)

Returned(o, n) == [o EXCEPT !.pc = "done", !.status = "returned", !.ret = n]
Raised(o) == [o EXCEPT !.pc = "done", !.status = "raised"]

\* index_transcript, entry to the split: the two availability guards,
\* callback 0.05, split_text, the zero-chunk return, callback 0.15.  The
\* callback is absent, returns, (cb_raises) raises when it is called, or
\* (cb_raises_at_end) raises when it is called with 1.0: no call of it is
\* guarded, so the outer except clause logs and re-raises.  calls lists
\* the embedding and store calls the run has made, before the points the
\* store held for the transcript when the run began.
IndexStart(tid, chunks, with_cb, cb_raises, cb_raises_at_end) ==
    /\ op = Idle
    /\ LET o == [kind |-> "index", pc |-> "embed", tid |-> tid, chunks |-> chunks,
                 with_cb |-> with_cb, cb_raises |-> cb_raises,
                 cb_raises_at_end |-> cb_raises_at_end, calls |-> <<>>,
                 progress |-> <<>>, status |-> "running",
                 ret |-> 0, prior |-> Len(PointsOf(points, tid)) > 0,
                 before |-> PointsOf(points, tid),
                 del_ok |-> FALSE, upsert |-> "none", path |-> "start"]
       IN  op' =
             IF ~qdrant_client THEN Returned([o EXCEPT !.path = "no_qdrant"], 0)
             ELSE IF ~use_local_embeddings /\ ~embeddings_client
             THEN Returned([o EXCEPT !.path = "no_embeddings"], 0)
             ELSE IF with_cb /\ cb_raises
             THEN Raised([o EXCEPT !.path = "callback_raised"])
             ELSE IF Len(chunks) = 0
             THEN LET z == [o EXCEPT !.path = "zero_chunks",
                              !.progress = Report(Report(<<>>, with_cb, Frac(5, 100)),
                                                  with_cb, Frac(1, 1))]
                  IN  IF cb_raises_at_end THEN Raised(z) ELSE Returned(z, 0)
             ELSE [o EXCEPT !.progress = Report(Report(<<>>, with_cb, Frac(5, 100)),
                                                with_cb, Frac(15, 100))]
    /\ UNCHANGED <<provider, points, lexical, reranker>>

\* index_transcript, _generate_embeddings(chunks) and the two checks on
\* its result, callback 0.4.
IndexEmbed(remote, local) ==
    /\ op.kind = "index" /\ op.pc = "embed"
    /\ LET e == GenerateEmbeddings(Len(op.chunks), remote, local)
       IN  op' =
             IF e.raised THEN Raised([op EXCEPT !.path = "embed_raised"])
             ELSE IF e.count = 0
             THEN LET z == [op EXCEPT !.path = "no_embeddings_generated",
                              !.progress = Report(@, op.with_cb, Frac(1, 1))]
                  IN  IF op.cb_raises_at_end THEN Raised(z) ELSE Returned(z, 0)
             ELSE IF e.count # Len(op.chunks)
             THEN LET z == [op EXCEPT !.path = "count_mismatch",
                              !.progress = Report(@, op.with_cb, Frac(1, 1))]
                  IN  IF op.cb_raises_at_end THEN Raised(z) ELSE Returned(z, 0)
             ELSE [op EXCEPT !.pc = "delete", !.calls = Append(@, "embeddings"),
                             !.progress = Report(@, op.with_cb, Frac(4, 10))]
    /\ UNCHANGED <<provider, points, lexical, reranker>>

IndexDeleteFatal(ok) ==
    /\ op.kind = "index" /\ op.pc = "delete"
    /\ points' = IF ok THEN DeleteByTranscript(points, op.tid) ELSE points
    /\ op' = IF ok
             THEN [op EXCEPT !.pc = "upsert", !.del_ok = ok,
                             !.calls = Append(@, "delete")]
             ELSE Raised([op EXCEPT !.path = "delete_raised", !.del_ok = ok,
                                    !.calls = Append(@, "delete")])
    /\ UNCHANGED <<provider, lexical, reranker>>

\* index_transcript, delete of the transcript's existing points (a failure
\* is logged and ignored), callback 0.5, point preparation with its loop
\* callbacks, callback 0.8.
IndexDelete(ok) ==
    /\ op.kind = "index" /\ op.pc = "delete"
    /\ points' = IF ok THEN DeleteByTranscript(points, op.tid) ELSE points
    /\ op' = [op EXCEPT !.pc = "upsert", !.del_ok = ok,
                !.calls = Append(@, "delete"),
                !.progress =
                    IF op.with_cb
                    THEN Append(Append(@, Frac(5, 10)) \o
                                LoopProgress(Len(op.chunks), Len(op.chunks)),
                                Frac(8, 10))
                    ELSE @]
    /\ UNCHANGED <<provider, lexical, reranker>>

\* What the first upsert comes to: it succeeds; the store rejects the
\* vectors for their dimension ("... expected dim: 1536, got 384"); another
\* error whose message holds one of the words looked for ("upsert() got an
\* unexpected keyword argument"); an error whose message holds none.
UpsertOutcomes == {"ok", "dimension", "got", "error"}

\* "dimension" in error_msg.lower() or "expected dim" in error_msg.lower()
\* or "got" in error_msg.lower()
DimensionMessage(outcome) == outcome \in {"dimension", "got"}

\* index_transcript, first upsert.  Success: callback 0.9, lexical
\* update, callback 1.0, return len(points).  An error whose message
\* passes the test for a dimension mismatch leads to the recovery, any
\* other is re-raised.  The same except clause covers the two callbacks
\* and the lexical update: a callback raising at 1.0 (with a message that
\* does not pass the test) is re-raised after both stores were written.
IndexUpsert(outcome) ==
    /\ op.kind = "index" /\ op.pc = "upsert"
    /\ outcome \in UpsertOutcomes
    /\ IF outcome = "ok"
       THEN LET u == UpdateBM25(bm25_chunks, bm25_chunk_map, op.chunks, op.tid)
            IN  /\ points' = points \o NewPoints(op.tid, op.chunks)
                /\ bm25_chunks' = u.chunks
                /\ bm25_chunk_map' = u.map
                /\ bm25_index' = IF u.chunks # <<>> THEN BM25Okapi(u.chunks)
                                 ELSE bm25_index
                /\ op' = LET z == [op EXCEPT !.path = "upsert", !.upsert = outcome,
                                     !.calls = Append(@, "upsert"),
                                     !.progress = Report(Report(@, op.with_cb, Frac(9, 10)),
                                                         op.with_cb, Frac(1, 1))]
                         IN  IF op.cb_raises_at_end
                             THEN Raised([z EXCEPT !.path = "callback_raised_at_end"])
                             ELSE Returned(z, Len(op.chunks))
       ELSE /\ op' = IF DimensionMessage(outcome)
                     THEN [op EXCEPT !.pc = "recover", !.upsert = outcome,
                                     !.calls = Append(@, "upsert")]
                     ELSE Raised([op EXCEPT !.path = "upsert_raised", !.upsert = outcome,
                                            !.calls = Append(@, "upsert")])
            /\ UNCHANGED <<points, bm25_chunks, bm25_chunk_map, bm25_index>>
    /\ UNCHANGED <<provider, qa_lexical, reranker>>

\* index_transcript, dimension-mismatch recovery: delete_collection (a
\* failure is logged and ignored), create_collection, retry of the upsert,
\* lexical update, return len(points).
IndexRecover(del_coll_ok, create_ok, retry_ok) ==
    /\ op.kind = "index" /\ op.pc = "recover"
    /\ LET kept == IF del_coll_ok THEN <<>> ELSE points
           u == UpdateBM25(bm25_chunks, bm25_chunk_map, op.chunks, op.tid)
       IN  IF create_ok /\ retry_ok
           THEN /\ points' = kept \o NewPoints(op.tid, op.chunks)
                /\ bm25_chunks' = u.chunks
                /\ bm25_chunk_map' = u.map
                /\ bm25_index' = IF u.chunks # <<>> THEN BM25Okapi(u.chunks)
                                 ELSE bm25_index
                /\ op' = Returned([op EXCEPT !.path = "recovered",
                                     !.calls = @ \o <<"delete_collection",
                                                      "create_collection", "upsert">>],
                                  Len(op.chunks))
           ELSE /\ points' = kept
                /\ op' = Raised([op EXCEPT !.path = "recover_raised",
                                   !.calls = @ \o (IF create_ok
                                                   THEN <<"delete_collection",
                                                          "create_collection", "upsert">>
                                                   ELSE <<"delete_collection",
                                                          "create_collection">>)])
                /\ UNCHANGED <<bm25_chunks, bm25_chunk_map, bm25_index>>
    /\ UNCHANGED <<provider, qa_lexical, reranker>>

DeleteTranscriptIndexUnguarded(tid, ok) ==
    /\ op = Idle
    /\ points' = IF ok THEN DeleteByTranscript(points, tid) ELSE points
    /\ op' = [kind |-> "delete", pc |-> "done", tid |-> tid, ret |-> ok]
    /\ UNCHANGED <<provider, lexical, reranker>>

\* delete_transcript_index(transcript_id)
DeleteTranscriptIndex(tid, ok) ==
    /\ op = Idle
    /\ points' = IF qdrant_client /\ ok THEN DeleteByTranscript(points, tid)
                 ELSE points
    /\ op' = [kind |-> "delete", pc |-> "done", tid |-> tid,
              ret |-> qdrant_client /\ ok]
    /\ UNCHANGED <<provider, lexical, reranker>>

\* ------------------------------------------------------------ retrieval
\* Scores are in thousandths.  The embedding geometry and the BM25 formula
\* belong to the embedding model and to rank_bm25; what stands for them
\* here is fixed and deterministic: the similarity of two texts is the
\* share of common tokens, the lexical score of a slot the number of
\* occurrences of the query tokens in it.
TokenSet(text) == {Tokenize(text)[k] : k \in 1..Len(text)}

Similarity(query, text) ==
    IF TokenSet(query) \cup TokenSet(text) = {} THEN 0
    ELSE 10 * ((100 * Cardinality(TokenSet(query) \cap TokenSet(text)))
                 \div Cardinality(TokenSet(query) \cup TokenSet(text)))

GetScores(corpus, query_tokens) ==
    [s \in 1..Len(corpus) |->
        1000 * Cardinality({<<k, q>> \in (1..Len(corpus[s])) \X (1..Len(query_tokens)) :
                               corpus[s][k] = query_tokens[q]})]

\* sorted(items, key=keys, reverse=True): descending and stable
SortDesc(items, keys) ==
    LET n == Len(items)
        pos(i) == 1 + Cardinality({j \in 1..n : keys[j] > keys[i] \/ (keys[j] = keys[i] /\ j < i)})
    IN  [p \in 1..n |-> items[CHOOSE i \in 1..n : pos(i) = p]]

SortByScore(items) == SortDesc(items, [i \in 1..Len(items) |-> items[i].score])

Take(items, n) == SubSeq(items, 1, Min(n, Len(items)))

InList(x, list) == \E k \in 1..Len(list) : list[k] = x

MatchesAnyId(p, transcript_ids) == InList(p.transcript_id, transcript_ids)

\* Filter(must=[FieldCondition(transcript_id == tid) for tid in
\* transcript_ids]): a point passes when it meets every condition
MatchesFilter(p, transcript_ids) ==
    \A k \in 1..Len(transcript_ids) : p.transcript_id = transcript_ids[k]

\* qdrant_client.search(query_vector, query_filter, limit): the limit best
\* points that pass the filter, best first
QdrantSearch(query, transcript_ids, limit) ==
    LET hits == SelectSeq(points, LAMBDA p : MatchesFilter(p, transcript_ids))
        scored == [i \in 1..Len(hits) |->
                     [chunk_text |-> hits[i].chunk_text,
                      transcript_id |-> hits[i].transcript_id,
                      chunk_index |-> hits[i].chunk_index,
                      score |-> Similarity(query, hits[i].chunk_text)]]
    IN  Take(SortByScore(scored), limit)

\* what the environment does to one search: the two embedding outcomes
\* and whether the vector store answers the search call
SearchEnvs == [remote : {"ok", "empty", "fail"}, local : {"ok", "fail"},
               search_ok : BOOLEAN]

VectorSearchOnlyIgnoringFailure(query, transcript_ids, top_k, env) ==
    QdrantSearch(query, transcript_ids, top_k)

\* _vector_search_only(query, transcript_ids, top_k): the early empty
\* returns, and the except clause, which returns []
VectorSearchOnly(query, transcript_ids, top_k, env) ==
    IF ~qdrant_client THEN <<>>
    ELSE IF ~use_local_embeddings /\ ~embeddings_client THEN <<>>
    ELSE LET e == GenerateEmbeddings(1, env.remote, env.local)
         IN  IF e.raised THEN <<>>
             ELSE IF e.count = 0 THEN <<>>
             ELSE IF ~env.search_ok THEN <<>>
             ELSE QdrantSearch(query, transcript_ids, top_k)

\* _bm25_search(query, transcript_ids, top_k)
RECURSIVE BM25Collect(_, _, _, _, _, _)
BM25Collect(chunk_map, top_indices, scores, transcript_ids, top_k, results) ==
    IF top_indices = <<>> \/ Len(results) >= top_k THEN results
    ELSE LET idx == Head(top_indices)
             entry == IF (idx - 1) \in DOMAIN chunk_map
                      THEN chunk_map[idx - 1] ELSE <<"None", 0, <<>>>>
             skip == \/ scores[idx] <= 0
                     \/ (transcript_ids # <<>> /\ ~InList(entry[1], transcript_ids))
         IN  BM25Collect(chunk_map, Tail(top_indices), scores, transcript_ids, top_k,
                         IF skip THEN results
                         ELSE Append(results,
                                [chunk_text |-> entry[3], transcript_id |-> entry[1],
                                 chunk_index |-> entry[2], score |-> scores[idx]]))

\* the lexical fields of one RAGService instance
LexicalState(chunks, chunk_map, index) ==
    [bm25_chunks |-> chunks, bm25_chunk_map |-> chunk_map, bm25_index |-> index]

OwnLexical == LexicalState(bm25_chunks, bm25_chunk_map, bm25_index)

NoLexical == LexicalState(<<>>, <<>>, NoIndex)

\* what _rebuild_bm25_index leaves for a store holding ps
RebuiltLexical(ps) ==
    LexicalState(RebuildChunks(ps), RebuildMap(ps),
                 IF RebuildChunks(ps) # <<>> THEN BM25Okapi(RebuildChunks(ps)) ELSE NoIndex)

BM25SearchIn(lex, query, transcript_ids, top_k) ==
    IF ~lex.bm25_index.present THEN <<>>
    ELSE IF Tokenize(query) = <<>> THEN <<>>
    ELSE LET scores == GetScores(lex.bm25_index.corpus, Tokenize(query))
             order == SortDesc([i \in 1..Len(scores) |-> i], scores)
         IN  BM25Collect(lex.bm25_chunk_map, Take(order, top_k * 2), scores,
                         transcript_ids, top_k, <<>>)

BM25Search(query, transcript_ids, top_k) == BM25SearchIn(OwnLexical, query, transcript_ids, top_k)

\* hybrid_search: the weighted merge by (transcript_id, chunk_index);
\* weights in tenths
RECURSIVE MergeWeighted(_, _, _)
MergeWeighted(combined, results, weight) ==
    IF results = <<>> THEN combined
    ELSE LET r == Head(results)
             hit == {k \in 1..Len(combined) :
                        /\ combined[k].transcript_id = r.transcript_id
                        /\ combined[k].chunk_index = r.chunk_index}
             add == (r.score * weight) \div 10
         IN  MergeWeighted(
                IF hit = {} THEN Append(combined, [r EXCEPT !.score = add])
                ELSE [combined EXCEPT ![CHOOSE k \in hit : TRUE].score = @ + add],
                Tail(results), weight)

VectorWeight == 7
BM25Weight == 3

HybridSearchIn(lex, query, transcript_ids, top_k, env) ==
    LET vector_results == VectorSearchOnly(query, transcript_ids, top_k * 2, env)
        bm25_results == BM25SearchIn(lex, query, transcript_ids, top_k * 2)
        combined == MergeWeighted(MergeWeighted(<<>>, vector_results, VectorWeight),
                                  bm25_results, BM25Weight)
    IN  Take(SortByScore(combined), top_k)

HybridSearch(query, transcript_ids, top_k, env) == HybridSearchIn(OwnLexical, query, transcript_ids, top_k, env)

\* RAGService.search, on the instance whose lexical fields are lex
SearchIn(lex, query, transcript_ids, top_k, use_hybrid, env) ==
    IF use_hybrid THEN HybridSearchIn(lex, query, transcript_ids, top_k, env)
    ELSE VectorSearchOnly(query, transcript_ids, top_k, env)

Search(query, transcript_ids, top_k, use_hybrid, env) == SearchIn(OwnLexical, query, transcript_ids, top_k, use_hybrid, env)

\* ---------------------------------------------------- question answering
DefaultReranker == "ms-marco-MiniLM-L-6-v2"
RerankerChoices == {DefaultReranker, "bge-reranker-v2-m3", "llm"}

\* _init_reranker: the model paths tried for a model name
ModelsToTry(model_name) ==
    CASE model_name = "ms-marco-MiniLM-L-6-v2" ->
            <<"cross-encoder/ms-marco-MiniLM-L-6-v2", "ms-marco-MiniLM-L-6-v2">>
      [] model_name = "bge-reranker-v2-m3" ->
            <<"BAAI/bge-reranker-v2-m3", "bge-reranker-v2-m3">>
      [] OTHER -> <<model_name>>

\* what loading comes to: the first path loads, or no path does (also
\* when sentence_transformers has no CrossEncoder).  A first path that
\* fails while the second loads is not among the outcomes drawn.
LoadOutcomes == {"first", "none"}

InitRerankerKeepingModel(model, name, model_name, load) ==
    LET paths == ModelsToTry(model_name)
    IN  IF load = "first" THEN [model |-> paths[1], name |-> paths[1]]
        ELSE IF load = "second" /\ Len(paths) >= 2
        THEN [model |-> paths[2], name |-> paths[2]]
        ELSE [model |-> model, name |-> name]

\* _init_reranker(model_name): the first path that loads becomes the
\* model and its name; when none loads the model is None and the name stays
InitReranker(model, name, model_name, load) ==
    LET paths == ModelsToTry(model_name)
    IN  IF load = "first" THEN [model |-> paths[1], name |-> paths[1]]
        ELSE IF load = "second" /\ Len(paths) >= 2
        THEN [model |-> paths[2], name |-> paths[2]]
        ELSE [model |-> "None", name |-> name]

\* the lines an LLM reply is split into, as search queries
ReplyLines == << <<"b">>, <<"a", "b">>, <<"A">>, <<"b">>, <<"a">> >>

Key(chunk) == <<chunk.transcript_id, chunk.chunk_index>>

RECURSIVE DeduplicateKeepLast(_)
DeduplicateKeepLast(all_chunks) ==
    IF all_chunks = <<>> THEN <<>>
    ELSE LET rest == Tail(all_chunks)
             c == Head(all_chunks)
         IN  IF \E k \in 1..Len(rest) : Key(rest[k]) = Key(c)
             THEN DeduplicateKeepLast(rest)
             ELSE <<c>> \o DeduplicateKeepLast(rest)

\* answer_question: keep the first chunk of every (transcript_id, chunk_index)
RECURSIVE Deduplicate(_)
Deduplicate(all_chunks) ==
    IF all_chunks = <<>> THEN <<>>
    ELSE LET front == SubSeq(all_chunks, 1, Len(all_chunks) - 1)
             c == all_chunks[Len(all_chunks)]
         IN  IF \E k \in 1..Len(front) : Key(front[k]) = Key(c)
             THEN Deduplicate(front)
             ELSE Append(Deduplicate(front), c)

\* the relevance the cross-encoder gives a (question, chunk) pair
CrossScore(question, text) ==
    1000 * Cardinality(TokenSet(question) \cap TokenSet(text)) - 500

\* _rerank_chunks_specialized(question, chunks, top_k) with a loaded model
RerankSpecialized(question, chunks, top_k, predict_ok) ==
    IF Len(chunks) <= top_k THEN Take(SortByScore(chunks), top_k)
    ELSE IF ~predict_ok THEN Take(SortByScore(chunks), top_k)
    ELSE LET scored == [i \in 1..Len(chunks) |->
                          [transcript_id |-> chunks[i].transcript_id,
                           chunk_index |-> chunks[i].chunk_index,
                           chunk_text |-> chunks[i].chunk_text,
                           score |-> chunks[i].score,
                           rerank_score |-> CrossScore(question, chunks[i].chunk_text),
                           combined_score |->
                              (7 * CrossScore(question, chunks[i].chunk_text)
                                 + 3 * chunks[i].score) \div 10]]
         IN  Take(SortDesc(scored, [i \in 1..Len(scored) |-> scored[i].combined_score]),
                  top_k)

\* the replies of the LLM to a rerank prompt: the numbers found in them
RerankReplies == {<<>>, <<1>>, <<2, 1>>, <<3, 3>>, <<9, 1>>}

RerankLLMKeepingOrder(chunks, top_k, call_ok, reply) ==
    IF Len(chunks) <= top_k THEN chunks
    ELSE IF ~call_ok THEN Take(chunks, top_k)
    ELSE LET first == Take(reply, top_k)
             indices == SelectSeq([k \in 1..Len(first) |-> first[k] - 1],
                                  LAMBDA i : 0 <= i /\ i < Len(chunks))
         IN  IF Len(indices) >= top_k
             THEN [k \in 1..top_k |-> chunks[indices[k] + 1]]
             ELSE Take(chunks, top_k)

RerankLLMTrustingPartial(chunks, top_k, call_ok, reply) ==
    IF Len(chunks) <= top_k THEN chunks
    ELSE IF ~call_ok THEN Take(SortByScore(chunks), top_k)
    ELSE LET first == Take(reply, top_k)
             indices == SelectSeq([k \in 1..Len(first) |-> first[k] - 1],
                                  LAMBDA i : 0 <= i /\ i < Len(chunks))
         IN  [k \in 1..Len(indices) |-> chunks[indices[k] + 1]]

\* _rerank_chunks(question, chunks, top_k, model)
RerankLLM(chunks, top_k, call_ok, reply) ==
    IF Len(chunks) <= top_k THEN chunks
    ELSE IF ~call_ok THEN Take(SortByScore(chunks), top_k)
    ELSE LET first == Take(reply, top_k)
             indices == SelectSeq([k \in 1..Len(first) |-> first[k] - 1],
                                  LAMBDA i : 0 <= i /\ i < Len(chunks))
         IN  IF Len(indices) >= top_k
             THEN [k \in 1..top_k |-> chunks[indices[k] + 1]]
             ELSE Take(SortByScore(chunks), top_k)

\* a failure of the completion call: the class of the exception and
\* whether its message contains "connection", "timeout" or "refused"
LLMFailures == [class : {"httpx.ConnectError", "httpx.TimeoutException"},
                mentions : {FALSE}] \cup
               [class : {"Exception"}, mentions : BOOLEAN]

RaisedAsUnclassified(failure) == [class |-> failure.class, cause |-> failure]

\* answer_question, the except clauses around synthesis and grading
RaisedAs(failure) ==
    IF failure.class \in {"httpx.ConnectError", "httpx.TimeoutException"}
    THEN [class |-> "ConnectionError", cause |-> failure]
    ELSE IF failure.mentions THEN [class |-> "ConnectionError", cause |-> failure]
    ELSE [class |-> failure.class, cause |-> failure]

Sources(chunks) ==
    [k \in 1..Len(chunks) |->
        [transcript_id |-> chunks[k].transcript_id,
         chunk_index |-> chunks[k].chunk_index, score |-> chunks[k].score]]

NoInformation ==
    [answer |-> "no_information", sources |-> <<>>, quality_score |-> 0,
     retrieved_chunks |-> <<>>]

QA(pc) == op.kind = "qa" /\ op.pc = pc
Called(o, call) == [o EXCEPT !.llm_calls = Append(@, call)]

\* answer_question raises: the caller gets the exception and nothing else
TurnRaised(step, error) ==
    [kind |-> "qa", pc |-> "done", status |-> "raised", failed_step |-> step,
     error |-> error]

\* answer_question, entry: search_queries = [question].  The flag
\* use_advanced_grading is read by the grading step alone and is taken there.
QAStart(question, transcript_ids, top_k, rerank, expand, multi_hop, hybrid, choice) ==
    /\ op = Idle
    /\ op' = [kind |-> "qa", pc |-> "reformulate", status |-> "running",
              question |-> question, transcript_ids |-> transcript_ids,
              top_k |-> top_k, use_reranking |-> rerank,
              use_query_expansion |-> expand, use_multi_hop |-> multi_hop,
              use_hybrid_search |-> hybrid,
              reranker_choice |-> choice, reranker_load |-> "not_tried",
              reranker_before |-> "None", search_queries |-> <<question>>,
              searched |-> 0, failed_searches |-> 0, chunks |-> <<>>,
              unique_chunks |-> <<>>,
              llm_calls |-> <<>>, soft_failures |-> {},
              result |-> [answer |-> "none"]]
    /\ UNCHANGED <<provider, points, lexical, reranker>>

\* what a multi-hop call comes to: dspy missing, the call raising, or a
\* reply of so many non-empty lines
MultiHopOutcomes == [kind : {"unavailable", "fail"}, lines : {0}] \cup
                    [kind : {"reply"}, lines : {1, 2, 5}]

MultiHopReasoningUncapped(question, outcome) ==
    IF outcome.kind = "unavailable" THEN <<>>
    ELSE IF outcome.kind = "fail" THEN <<question>>
    ELSE IF outcome.lines <= 1 THEN <<question>>
    ELSE SubSeq(ReplyLines, 1, outcome.lines)

\* _multi_hop_reasoning(question, model)
MultiHopReasoning(question, outcome) ==
    IF outcome.kind = "unavailable" THEN <<>>
    ELSE IF outcome.kind = "fail" THEN <<question>>
    ELSE IF outcome.lines <= 1 THEN <<question>>
    ELSE Take(SubSeq(ReplyLines, 1, outcome.lines), 4)

\* answer_question with use_multi_hop: the sub-queries, when there are
\* any, replace the question
QAMultiHop(outcome) ==
    /\ QA("reformulate") /\ op.use_multi_hop
    /\ LET sub_queries == MultiHopReasoning(op.question, outcome)
           o == IF outcome.kind = "unavailable" THEN op ELSE Called(op, "multi_hop")
       IN  op' = [o EXCEPT !.pc = "retrieve",
                     !.search_queries = IF sub_queries # <<>> THEN sub_queries ELSE @,
                     !.soft_failures = IF outcome.kind = "fail" THEN @ \cup {"reformulate"}
                                       ELSE @]
    /\ UNCHANGED <<provider, points, lexical, reranker>>

\* what the two expansion calls come to: the first raising, the second
\* raising, or so many reformulation lines and a hypothetical answer that
\* is empty or not
ExpandOutcomes == {[fail |-> 1], [fail |-> 2]} \cup
                  [fail : {0}, lines : {0, 3}, hypothetical : BOOLEAN]

ExpandQueryRaising(outcome) ==
    IF outcome.fail # 0 THEN [raised |-> TRUE, queries |-> <<>>]
    ELSE [raised |-> FALSE,
          queries |-> Take(SubSeq(ReplyLines, 1, outcome.lines), 2) \o
                      (IF outcome.hypothetical THEN <<ReplyLines[2]>> ELSE <<>>)]

\* _expand_query(question, model): the first two reformulations and the
\* hypothetical answer when it is not empty; any exception gives []
ExpandQuery(outcome) ==
    IF outcome.fail # 0 THEN [raised |-> FALSE, queries |-> <<>>]
    ELSE [raised |-> FALSE,
          queries |-> Take(SubSeq(ReplyLines, 1, outcome.lines), 2) \o
                      (IF outcome.hypothetical THEN <<ReplyLines[2]>> ELSE <<>>)]

QAExpandAlongsideMultiHop(outcome) ==
    /\ QA("reformulate") /\ op.use_query_expansion
    /\ LET o == IF outcome.fail = 1 THEN Called(op, "expand_reformulate")
                ELSE Called(Called(op, "expand_reformulate"), "expand_hypothetical")
           e == ExpandQuery(outcome)
       IN  op' = [o EXCEPT !.pc = "retrieve",
                     !.search_queries = @ \o e.queries,
                     !.soft_failures = IF outcome.fail # 0
                                       THEN @ \cup {"reformulate"} ELSE @]
    /\ UNCHANGED <<provider, points, lexical, reranker>>

\* answer_question with use_query_expansion and not use_multi_hop: the
\* expanded queries are searched after the question
QAExpand(outcome) ==
    /\ QA("reformulate") /\ op.use_query_expansion /\ ~op.use_multi_hop
    /\ LET o == IF outcome.fail = 1 THEN Called(op, "expand_reformulate")
                ELSE Called(Called(op, "expand_reformulate"), "expand_hypothetical")
           e == ExpandQuery(outcome)
       IN  op' = IF e.raised
                 THEN TurnRaised("reformulate", [class |-> "Exception"])
                 ELSE [o EXCEPT !.pc = "retrieve",
                          !.search_queries = @ \o e.queries,
                          !.soft_failures = IF outcome.fail # 0
                                            THEN @ \cup {"reformulate"} ELSE @]
    /\ UNCHANGED <<provider, points, lexical, reranker>>

\* answer_question with neither strategy
QANoReformulation ==
    /\ QA("reformulate") /\ ~op.use_query_expansion /\ ~op.use_multi_hop
    /\ op' = [op EXCEPT !.pc = "retrieve"]
    /\ UNCHANGED <<provider, points, lexical, reranker>>

\* whether the environment made this search end in the except clause or
\* in one of the early empty returns of _vector_search_only
SearchFailed(env) ==
    \/ ~qdrant_client
    \/ (~use_local_embeddings /\ ~embeddings_client)
    \/ GenerateEmbeddings(1, env.remote, env.local).raised
    \/ GenerateEmbeddings(1, env.remote, env.local).count = 0
    \/ ~env.search_ok

\* answer_question, one pass of the retrieval loop: search the next
\* query with top_k * 2 and extend all_chunks; after the last query the
\* chunks are deduplicated
QARetrieve(env) ==
    /\ QA("retrieve")
    /\ LET query == op.search_queries[op.searched + 1]
           found == SearchIn(qa_lexical, query, op.transcript_ids, op.top_k * 2,
                           op.use_hybrid_search, env)
           all_chunks == op.chunks \o found
           last == op.searched + 1 = Len(op.search_queries)
       IN  op' = [op EXCEPT !.searched = @ + 1,
                     !.failed_searches = IF SearchFailed(env) THEN @ + 1 ELSE @,
                     !.chunks = IF last THEN Deduplicate(all_chunks) ELSE all_chunks,
                     !.unique_chunks = IF last THEN Deduplicate(all_chunks) ELSE @,
                     !.pc = IF last THEN "rerank" ELSE "retrieve"]
    /\ UNCHANGED <<provider, points, lexical, reranker>>

AfterRerankAlwaysSynthesize(o, retrieved_chunks) ==
    [o EXCEPT !.pc = "synthesize", !.chunks = retrieved_chunks]

\* the no-chunks return, or on to synthesis
AfterRerank(o, retrieved_chunks) ==
    IF retrieved_chunks = <<>>
    THEN [o EXCEPT !.pc = "done", !.status = "returned", !.chunks = <<>>,
             !.result = NoInformation]
    ELSE [o EXCEPT !.pc = "synthesize", !.chunks = retrieved_chunks]

\* answer_question, reranking: skipped unless use_reranking and more than
\* top_k unique chunks; _init_reranker when the requested model is not the
\* loaded one; the cross-encoder when one is loaded, else the LLM.
\* reranker_load records whether _init_reranker ran and loaded a model,
\* reranker_before the model held when it ran.
QARerank(load, model_ok, reply) ==
    /\ QA("rerank")
    /\ IF op.use_reranking /\ Len(op.chunks) > op.top_k
       THEN LET init == op.reranker_choice # reranker_model_name
                           /\ op.reranker_choice # "llm"
                r == IF init
                     THEN InitReranker(reranker_model, reranker_model_name,
                                       op.reranker_choice, load)
                     ELSE [model |-> reranker_model, name |-> reranker_model_name]
                o == IF init
                     THEN [op EXCEPT !.reranker_before = reranker_model,
                              !.reranker_load = IF load = "none" THEN "failed"
                                                ELSE "loaded"]
                     ELSE op
            IN  /\ reranker_model' = r.model
                /\ reranker_model_name' = r.name
                /\ IF op.reranker_choice # "llm" /\ r.model # "None"
                   THEN op' = AfterRerank(
                           [o EXCEPT !.soft_failures =
                               IF model_ok THEN @ ELSE @ \cup {"rerank"}],
                           RerankSpecialized(op.question, op.chunks, op.top_k, model_ok))
                   ELSE op' = AfterRerank(
                           [Called(o, "rerank") EXCEPT !.soft_failures =
                               IF model_ok THEN @ ELSE @ \cup {"rerank"}],
                           RerankLLM(op.chunks, op.top_k, model_ok, reply))
       ELSE /\ op' = AfterRerank(op, Take(SortByScore(op.chunks), op.top_k))
            /\ UNCHANGED reranker
    /\ UNCHANGED <<provider, points, lexical>>

\* answer_question, the synthesis call: a failure is raised by the except
\* clauses, an answer goes on to grading
QASynthesize(ok, failure) ==
    /\ QA("synthesize")
    /\ op' = IF ok THEN [Called(op, "synthesize") EXCEPT !.pc = "grade"]
             ELSE TurnRaised("synthesize", RaisedAs(failure))
    /\ UNCHANGED <<provider, points, lexical, reranker>>

\* what the two grading calls come to
GradeOutcomes == {"ok", "fail1", "fail2"}

\* answer_question, grading and the result: the heuristic grader, or with
\* use_advanced_grading the advanced grader, which falls back to the
\* heuristic one when a call fails
QAGrade(advanced, outcome) ==
    /\ QA("grade")
    /\ LET o == IF ~advanced THEN op
                ELSE IF outcome = "fail1" THEN Called(op, "grade_groundedness")
                ELSE Called(Called(op, "grade_groundedness"), "grade_completeness")
           graded == IF ~advanced THEN "heuristic"
                     ELSE IF outcome = "ok" THEN "advanced" ELSE "heuristic_fallback"
       IN  op' = [o EXCEPT !.pc = "done", !.status = "returned",
                     !.soft_failures = IF advanced /\ outcome # "ok"
                                       THEN @ \cup {"grade"} ELSE @,
                     !.result = [answer |-> "llm", sources |-> Sources(op.chunks),
                                 graded_by |-> graded,
                                 retrieved_chunks |-> op.chunks]]
    /\ UNCHANGED <<provider, points, lexical, reranker>>

\* ------------------------------------------------------- construction
\* The provider selection RAGService.__init__ can end in: the remote
\* endpoint answered the probe; the probe failed and a local model loaded;
\* the probe failed and no local model could be loaded.
ProviderConfigs ==
    { [client |-> TRUE, use_local |-> FALSE, model |-> FALSE],
      [client |-> FALSE, use_local |-> TRUE, model |-> TRUE],
      [client |-> FALSE, use_local |-> FALSE, model |-> FALSE] }

\* RAGService.__init__ against an empty vector store.
Init ==
    /\ qdrant_client \in BOOLEAN
    /\ \E c \in ProviderConfigs :
          /\ embeddings_client = c.client
          /\ use_local_embeddings = c.use_local
          /\ local_embeddings_model = c.model
    /\ points = <<>>
    /\ bm25_chunks = <<>>
    /\ bm25_chunk_map = <<>>
    /\ bm25_index = NoIndex
    /\ qa_lexical = NoLexical
    /\ \E load \in LoadOutcomes :
          LET r == InitReranker("None", "None", DefaultReranker, load)
          IN  reranker_model = r.model /\ reranker_model_name = r.name
    /\ op = Idle

\* The services constructed in a new process against the store as it is:
\* connection test, provider selection, _rebuild_bm25_index (scroll_ok: the
\* scroll succeeded), then _ensure_collection (mismatch: the collection's
\* recorded dimension differs from the provider's, so it is dropped and
\* created again); then RAGQAService(), whose own RAGService rebuilds its
\* lexical index from the store as the first left it (its scroll fares as
\* the first did), and _init_reranker for the default model.
Restart(qc, c, scroll_ok, mismatch, load) ==
    /\ op = Idle
    /\ qdrant_client' = qc
    /\ embeddings_client' = c.client
    /\ use_local_embeddings' = c.use_local
    /\ local_embeddings_model' = c.model
    /\ IF qc /\ scroll_ok
       THEN /\ bm25_chunks' = RebuildChunks(points)
            /\ bm25_chunk_map' = RebuildMap(points)
            /\ bm25_index' = IF RebuildChunks(points) # <<>>
                             THEN BM25Okapi(RebuildChunks(points)) ELSE NoIndex
       ELSE /\ bm25_chunks' = <<>>
            /\ bm25_chunk_map' = <<>>
            /\ bm25_index' = NoIndex
    /\ points' = IF qc /\ mismatch THEN <<>> ELSE points
    /\ qa_lexical' = IF qc /\ scroll_ok
                     THEN RebuiltLexical(IF mismatch THEN <<>> ELSE points)
                     ELSE NoLexical
    /\ LET r == InitReranker("None", "None", DefaultReranker, load)
       IN  reranker_model' = r.model /\ reranker_model_name' = r.name
    /\ op' = Idle

\* The call has returned or raised and its caller has taken the outcome:
\* the service is ready for the next call.
Return ==
    /\ op.pc = "done"
    /\ op' = Idle
    /\ UNCHANGED <<provider, points, lexical, reranker>>

\* a direct call of _vector_search_only(query, transcript_ids, top_k)
VectorSearch(query, transcript_ids, top_k, env) ==
    /\ op = Idle
    /\ op' = [kind |-> "search", pc |-> "done", query |-> query,
              transcript_ids |-> transcript_ids, top_k |-> top_k,
              failed |-> SearchFailed(env),
              results |-> VectorSearchOnly(query, transcript_ids, top_k, env)]
    /\ UNCHANGED <<provider, points, lexical, reranker>>

\* The services constructed against a store that holds two indexed
\* documents: the state Restart leaves when the scroll succeeds and the
\* dimensions agree.
IndexedStore == NewPoints("d1", SplitText(2)) \o NewPoints("d2", SplitText(1))

InitQA ==
    /\ qdrant_client \in BOOLEAN
    /\ \E c \in {p \in ProviderConfigs : ~p.use_local} :
          /\ embeddings_client = c.client
          /\ use_local_embeddings = c.use_local
          /\ local_embeddings_model = c.model
    /\ points = IndexedStore
    /\ bm25_chunks = IF qdrant_client THEN RebuildChunks(IndexedStore) ELSE <<>>
    /\ bm25_chunk_map = IF qdrant_client THEN RebuildMap(IndexedStore) ELSE <<>>
    /\ bm25_index = IF qdrant_client THEN BM25Okapi(RebuildChunks(IndexedStore))
                    ELSE NoIndex
    /\ qa_lexical = IF qdrant_client THEN RebuiltLexical(IndexedStore) ELSE NoLexical
    /\ \E load \in LoadOutcomes :
          LET r == InitReranker("None", "None", DefaultReranker, load)
          IN  reranker_model = r.model /\ reranker_model_name = r.name
    /\ op = Idle

QAStartAny ==
    /\ op = Idle
    /\ \E question \in Questions, transcript_ids \in QAIdLists, top_k \in 1..MaxTopK,
          rerank \in BOOLEAN, expand \in BOOLEAN, multi_hop \in BOOLEAN,
          hybrid \in BOOLEAN, choice \in RerankerChoices :
           /\ (~rerank => choice = DefaultReranker)
           /\ QAStart(question, transcript_ids, top_k, rerank, expand, multi_hop,
                      hybrid, choice)
QAMultiHopAny == \E outcome \in MultiHopOutcomes : QAMultiHop(outcome)
QAExpandAny == \E outcome \in ExpandOutcomes : QAExpand(outcome)
QARetrieveAny == \E env \in SearchEnvs : QARetrieve(env)
QARerankAny ==
    \E load \in LoadOutcomes, model_ok \in BOOLEAN, reply \in RerankReplies :
        QARerank(load, model_ok, reply)
QASynthesizeAny == \E ok \in BOOLEAN, failure \in LLMFailures : QASynthesize(ok, failure)
QAGradeAny ==
    \E advanced \in BOOLEAN, outcome \in GradeOutcomes :
        /\ (~advanced => outcome = "ok")
        /\ QAGrade(advanced, outcome)
VectorSearchAny ==
    /\ op = Idle
    /\ \E query \in Questions, transcript_ids \in IdLists, top_k \in 1..MaxPoints,
          env \in SearchEnvs :
           VectorSearch(query, transcript_ids, top_k, env)

\* a direct call of search(query, transcript_ids, top_k, use_hybrid): the
\* except clause of search returns [] for whatever its callee raises
SearchCall(query, transcript_ids, top_k, use_hybrid, env) ==
    /\ op = Idle
    /\ op' = [kind |-> "search_call", pc |-> "done", query |-> query,
              transcript_ids |-> transcript_ids, top_k |-> top_k,
              use_hybrid |-> use_hybrid, failed |-> SearchFailed(env),
              status |-> "returned",
              bm25_results |-> BM25Search(query, transcript_ids, top_k * 2),
              results |-> Search(query, transcript_ids, top_k, use_hybrid, env)]
    /\ UNCHANGED <<provider, points, lexical, reranker>>

SearchCallAny ==
    /\ op = Idle
    /\ \E query \in Questions, transcript_ids \in {<<>>, <<"d1">>}, top_k \in 1..MaxTopK,
          use_hybrid \in BOOLEAN, env \in SearchEnvs :
           SearchCall(query, transcript_ids, top_k, use_hybrid, env)

NextQA ==
    \/ QAStartAny
    \/ QAMultiHopAny
    \/ QAExpandAny
    \/ QANoReformulation
    \/ QARetrieveAny
    \/ QARerankAny
    \/ QASynthesizeAny
    \/ QAGradeAny
    \/ VectorSearchAny
    \/ SearchCallAny
    \/ Return

SpecQA == InitQA /\ [][NextQA]_vars

\* a direct call of hybrid_search(query, transcript_ids, top_k) with the
\* default weights; what each side returned is kept beside the result
HybridSearchCall(query, transcript_ids, top_k, env) ==
    /\ op = Idle
    /\ op' = [kind |-> "hybrid", pc |-> "done", query |-> query,
              transcript_ids |-> transcript_ids, top_k |-> top_k,
              vector_results |-> VectorSearchOnly(query, transcript_ids, top_k * 2, env),
              bm25_results |-> BM25Search(query, transcript_ids, top_k * 2),
              results |-> HybridSearch(query, transcript_ids, top_k, env)]
    /\ UNCHANGED <<provider, points, lexical, reranker>>

HybridSearchCallAny ==
    /\ op = Idle
    /\ \E query \in Questions, transcript_ids \in {<<>>, <<"d1">>},
          top_k \in 1..MaxTopK, env \in SearchEnvs :
           HybridSearchCall(query, transcript_ids, top_k, env)

IndexStartAny ==
    /\ op = Idle
    /\ \E tid \in Docs, chunks \in DocTexts, with_cb \in BOOLEAN, cb_raises \in BOOLEAN,
          cb_raises_at_end \in BOOLEAN :
           /\ Len(points) + Len(chunks) <= MaxPoints
           /\ Len(bm25_chunks) + Len(chunks) <= MaxSlots
           /\ cb_raises => with_cb
           /\ cb_raises_at_end => (with_cb /\ ~cb_raises)
           /\ IndexStart(tid, chunks, with_cb, cb_raises, cb_raises_at_end)
\* a long text, indexed into an empty store and an empty lexical index
IndexStartLong ==
    \E chunks \in LongTexts :
        /\ points = <<>>
        /\ bm25_chunks = <<>>
        /\ IndexStart("d1", chunks, TRUE, FALSE, FALSE)
IndexEmbedAny == \E remote \in EmbedOutcomes, local \in EmbedOutcomes : IndexEmbed(remote, local)
IndexDeleteAny == \E ok \in BOOLEAN : IndexDelete(ok)
IndexUpsertAny == \E outcome \in UpsertOutcomes : IndexUpsert(outcome)
IndexRecoverAny == \E d \in BOOLEAN, c \in BOOLEAN, r \in BOOLEAN : IndexRecover(d, c, r)
DeleteTranscriptIndexAny == \E tid \in Docs, ok \in BOOLEAN : DeleteTranscriptIndex(tid, ok)
RestartAny ==
    /\ op = Idle
    /\ \E qc \in BOOLEAN, c \in ProviderConfigs, scroll_ok \in BOOLEAN,
          mismatch \in BOOLEAN, load \in LoadOutcomes :
           Restart(qc, c, scroll_ok, mismatch, load)

Next ==
    \/ IndexStartAny
    \/ IndexStartLong
    \/ IndexEmbedAny
    \/ IndexDeleteAny
    \/ IndexUpsertAny
    \/ IndexRecoverAny
    \/ DeleteTranscriptIndexAny
    \/ RestartAny
    \/ HybridSearchCallAny
    \/ Return

Spec == Init /\ [][Next]_vars

\* ------------------------------------------- direct calls of the methods
\* Candidate lists handed to a reranker or to the merge: chunks of one
\* document with two chunk indices and two scores each, in any order and
\* with repetitions.
MaxCands == 3
CandScores == {200, 900}
CandChunks ==
    {[transcript_id |-> "d1", chunk_index |-> i, chunk_text |-> SplitText(2)[i + 1], score |-> sc] : i \in 0..1, sc \in CandScores}
Candidates == UNION {[1..n -> CandChunks] : n \in 0..MaxCands}

\* whether the strategy calls the cross-encoder or the LLM at all
RerankSpecializedCalls(model, chunks, top_k) ==
    IF model = "None" \/ Len(chunks) <= top_k THEN <<>> ELSE <<"predict">>
RerankLLMCalls(chunks, top_k) ==
    IF Len(chunks) <= top_k THEN <<>> ELSE <<"rerank">>

RerankStrategies == {"specialized", "llm"}

\* a direct call of _rerank_chunks_specialized(question, chunks, top_k) or
\* of _rerank_chunks(question, chunks, top_k, model); call_ok: the model's
\* predict, or the completion call, does not raise
RerankCall(strategy, question, chunks, top_k, call_ok, reply) ==
    /\ op = Idle
    /\ op' = [kind |-> "rerank", pc |-> "done", strategy |-> strategy,
              chunks |-> chunks, top_k |-> top_k, call_ok |-> call_ok,
              reply |-> reply,
              calls |-> IF strategy = "llm" THEN RerankLLMCalls(chunks, top_k)
                        ELSE RerankSpecializedCalls(reranker_model, chunks, top_k),
              result |-> IF strategy = "llm"
                         THEN RerankLLM(chunks, top_k, call_ok, reply)
                         ELSE IF reranker_model = "None"
                         THEN Take(SortByScore(chunks), top_k)
                         ELSE RerankSpecialized(question, chunks, top_k, call_ok)]
    /\ UNCHANGED <<provider, points, lexical, reranker>>

RerankCallAny ==
    /\ op = Idle
    /\ \E strategy \in RerankStrategies, question \in Questions,
          chunks \in Candidates, top_k \in 1..MaxTopK, call_ok \in BOOLEAN,
          reply \in RerankReplies :
           /\ (strategy = "specialized" => reply = <<>>)
           /\ RerankCall(strategy, question, chunks, top_k, call_ok, reply)

\* The retrieval loop of answer_question with the results of each search
\* given: all_chunks.extend(chunks) once per query, then the
\* deduplication.  The results of a search are any candidate list.
MaxMerged == 3

MergeStart ==
    /\ op = Idle
    /\ op' = [kind |-> "merge", pc |-> "extend", per_query |-> <<>>,
              all_chunks |-> <<>>, unique_chunks |-> <<>>]
    /\ UNCHANGED <<provider, points, lexical, reranker>>

MergeExtend(chunks) ==
    /\ op.kind = "merge" /\ op.pc = "extend"
    /\ op' = [op EXCEPT !.per_query = Append(@, chunks),
                        !.all_chunks = @ \o chunks]
    /\ UNCHANGED <<provider, points, lexical, reranker>>

MergeExtendAny ==
    /\ op.kind = "merge" /\ op.pc = "extend"
    /\ \E chunks \in Candidates :
        /\ Len(op.all_chunks) + Len(chunks) <= MaxMerged
        /\ Len(op.per_query) < MaxMerged
        /\ MergeExtend(chunks)

MergeDeduplicate ==
    /\ op.kind = "merge" /\ op.pc = "extend"
    /\ op.per_query # <<>>
    /\ op' = [op EXCEPT !.pc = "done",
                        !.unique_chunks = Deduplicate(op.all_chunks)]
    /\ UNCHANGED <<provider, points, lexical, reranker>>

\* --------------------------------------------------------------- grading
\* An answer is its length in characters and its words.  Scores and the
\* grader's terms are in thousandths; a quotient the code takes in floating
\* point is rounded down to the thousandth, comparisons are exact.
AnswerLens == {0, 4, 10, 60, 500, 1500, 3000}
Answers ==
    {a \in [len : AnswerLens, words : {<<>>, <<"A">>, <<"a", "b">>}] : a.len >= 2 * Len(a.words) - 1 /\ (a.len = 0 => a.words = <<>>)}

RECURSIVE SumScores(_)
SumScores(chunks) == IF chunks = <<>> THEN 0 ELSE Head(chunks).score + SumScores(Tail(chunks))

RECURSIVE JoinTexts(_)
JoinTexts(chunks) == IF chunks = <<>> THEN <<>> ELSE Head(chunks).chunk_text \o JoinTexts(Tail(chunks))

ClampScoreAbsent(base_score) == base_score

\* min(5.0, max(0.0, base_score))
ClampScore(base_score) == Min(5000, Max(0, base_score))

\* the length term of _evaluate_answer_quality
LengthAdjustment(len, optimal_min, optimal_max, rerank, hybrid, sum, n, reduction) ==
    LET quality_bonus == IF sum > 600 * n THEN 100 ELSE IF sum > 500 * n THEN 50 ELSE 0
    IN  IF len < 50 THEN 0 - 500
        ELSE IF len < optimal_min
        THEN 300 + ((len - 50) * 300) \div (optimal_min - 50)
        ELSE IF len <= optimal_max
        THEN 900 - (IF optimal_max > optimal_min
                    THEN ((len - optimal_min) * 200) \div (optimal_max - optimal_min)
                    ELSE 100)
        ELSE IF len <= optimal_max + 700
        THEN LET base_long_value == (IF rerank /\ hybrid THEN 800
                                     ELSE IF rerank \/ hybrid THEN 700 ELSE 500) + quality_bonus
                 length_penalty == ((len - optimal_max) * 200) \div 700
             IN  base_long_value - Max(0, length_penalty - reduction)
        ELSE LET base_very_long_value == (IF rerank /\ hybrid THEN 400
                                          ELSE IF rerank \/ hybrid THEN 300 ELSE 200) + quality_bonus
                 base_penalty == 200 + Min(200, ((len - (optimal_max + 700)) * 1000) \div 2000)
             IN  base_very_long_value - Max(0, base_penalty - reduction)

\* the term of _evaluate_answer_quality drawn from the chunk scores
RelevanceAdjustment(chunks, hybrid) ==
    IF chunks = <<>> THEN 0
    ELSE LET n == Len(chunks)
             sum == SumScores(chunks)
             max_score == CHOOSE m \in {chunks[i].score : i \in 1..n} : \A i \in 1..n : chunks[i].score <= m
             min_score == CHOOSE m \in {chunks[i].score : i \in 1..n} : \A i \in 1..n : chunks[i].score >= m
             high == IF hybrid THEN 600 ELSE 750
             medium == IF hybrid THEN 400 ELSE 600
             low == IF hybrid THEN 150 ELSE 200
             relevance_boost == IF sum > high * n THEN 400
                                ELSE IF sum > medium * n THEN 250
                                ELSE IF sum > 300 * n THEN 100
                                ELSE IF sum < low * n THEN 0 - 200 ELSE 0
             consistency_boost == IF max_score - min_score < 100 /\ sum > medium * n THEN 100 ELSE 0
         IN  relevance_boost + consistency_boost

\* base_score of _evaluate_answer_quality before it is clamped
BaseScore(answer, chunks, top_k, rerank, hybrid) ==
    LET chunks_used == Len(chunks)
        n == Max(chunks_used, 1)
        sum == SumScores(chunks)
        context_words == TokenSet(Take(JoinTexts(chunks), 20))
        common == Cardinality(context_words \cap TokenSet(answer.words))
        context_size == Max(Cardinality(context_words), 1)
        overlap_boost == IF 10 * common > context_size
                         THEN 800 + Min(400, (2000 * common) \div context_size) ELSE 0
        optimal_min == IF rerank THEN 100 ELSE 200
        base_optimal_max == IF rerank /\ hybrid THEN 1800 ELSE IF rerank THEN 1400
                            ELSE IF hybrid THEN 1200 ELSE 800
        optimal_max == IF chunks_used > top_k
                       THEN base_optimal_max + (base_optimal_max *
                               Min(500, (300 * (chunks_used - top_k)) \div top_k)) \div 1000
                       ELSE base_optimal_max
        relevance_factor == Min(1000, ((sum - 400 * n) * 1000) \div (300 * n))
        reduction ==
            IF chunks_used > top_k /\ sum > 400 * n
            THEN Min(300, (relevance_factor * Min(1000, (1000 * (chunks_used - top_k)) \div top_k) * 300) \div 1000000)
            ELSE IF rerank /\ sum > 400 * n
            THEN Min(300, (relevance_factor * Min(1000, (1000 * chunks_used) \div Max(top_k, 1)) * 300) \div 1000000)
            ELSE IF hybrid /\ sum > 400 * n
            THEN Min(250, (relevance_factor * Min(1000, (1000 * chunks_used) \div Max(top_k, 1)) * 250) \div 1000000)
            ELSE 0
        chunk_usage_boost == IF chunks_used > 1
                             THEN 200 + Min(200, ((chunks_used - 1) * 200) \div top_k) ELSE 0
        chunk_penalty == IF 10 * chunks_used >= 8 * top_k THEN 150
                         ELSE IF 2 * chunks_used < top_k /\ ~rerank THEN 0 - 200 ELSE 0
        reranking_boost == IF rerank THEN (IF chunks_used > 1 THEN 500 ELSE 300) ELSE 0
        hybrid_boost == IF hybrid THEN 350 ELSE 0
    IN  2000 + overlap_boost
        + LengthAdjustment(answer.len, optimal_min, optimal_max, rerank, hybrid, sum, n, reduction)
        + chunk_usage_boost + chunk_penalty + reranking_boost + hybrid_boost
        + RelevanceAdjustment(chunks, hybrid)

\* _evaluate_answer_quality(question, answer, retrieved_chunks, top_k,
\* use_reranking, use_hybrid_search)
EvaluateAnswerQuality(answer, chunks, top_k, rerank, hybrid) ==
    IF answer.len < 10 THEN 1000
    ELSE ClampScore(BaseScore(answer, chunks, top_k, rerank, hybrid))

\* what a grading call comes to: it raises, or its reply holds a number
\* (in thousandths) or none
GradeReplies == {[raises |-> TRUE]} \cup [raises : {FALSE}, found : {TRUE}, value : {200, 1000, 7000}] \cup {[raises |-> FALSE, found |-> FALSE, value |-> 0]}

\* float(match) if match else 0.5, then max(0.0, min(1.0, x))
ParsedGrade(reply) == IF reply.found THEN Max(0, Min(1000, reply.value)) ELSE 500

GradeFallbackZero(simple_score) ==
    [groundedness |-> 0, completeness |-> 0, relevance |-> simple_score \div 5,
     overall_score |-> simple_score]

\* the except clause of _evaluate_answer_quality_advanced
GradeFallback(simple_score) ==
    [groundedness |-> 500, completeness |-> 500, relevance |-> simple_score \div 5,
     overall_score |-> simple_score]

\* _evaluate_answer_quality_advanced(question, answer, retrieved_chunks,
\* model, use_reranking, use_hybrid_search, top_k)
EvaluateAnswerQualityAdvanced(answer, chunks, top_k, rerank, hybrid, ground, complete) ==
    LET simple_score == EvaluateAnswerQuality(answer, chunks, top_k, rerank, hybrid)
    IN  IF ground.raises \/ complete.raises THEN GradeFallback(simple_score)
        ELSE LET groundedness == ParsedGrade(ground)
                 completeness == ParsedGrade(complete)
             IN  [groundedness |-> groundedness, completeness |-> completeness,
                  relevance |-> simple_score \div 5,
                  overall_score |-> (20 * groundedness + 15 * completeness + 3 * simple_score) \div 10]

\* retrieved chunk lists: distinct keys
GradedChunks == {c \in Candidates : \A i \in 1..Len(c), j \in 1..Len(c) : i # j => Key(c[i]) # Key(c[j])}

\* a direct call of the grader the turn would use: the advanced one with
\* use_advanced_grading, else the heuristic one
GradeCall(answer, chunks, top_k, rerank, hybrid, advanced, ground, complete) ==
    /\ op = Idle
    /\ LET metrics == EvaluateAnswerQualityAdvanced(answer, chunks, top_k, rerank, hybrid, ground, complete)
       IN  op' = [kind |-> "grade", pc |-> "done", answer |-> answer, chunks |-> chunks,
                  top_k |-> top_k, use_reranking |-> rerank, use_hybrid_search |-> hybrid,
                  use_advanced_grading |-> advanced,
                  failed |-> advanced /\ (ground.raises \/ complete.raises),
                  simple_score |-> EvaluateAnswerQuality(answer, chunks, top_k, rerank, hybrid),
                  quality_metrics |-> IF advanced THEN metrics
                                      ELSE [groundedness |-> 0, completeness |-> 0,
                                            relevance |-> 0, overall_score |-> 0],
                  quality_score |-> IF advanced THEN metrics.overall_score
                                    ELSE EvaluateAnswerQuality(answer, chunks, top_k, rerank, hybrid)]
    /\ UNCHANGED <<provider, points, lexical, reranker>>

GradeCallAny ==
    /\ op = Idle
    /\ \E answer \in Answers, chunks \in GradedChunks, top_k \in 1..MaxTopK,
          rerank \in BOOLEAN, hybrid \in BOOLEAN, advanced \in BOOLEAN,
          ground \in GradeReplies, complete \in GradeReplies :
           /\ (~advanced => (ground.raises /\ complete.raises))
           /\ GradeCall(answer, chunks, top_k, rerank, hybrid, advanced, ground, complete)

\* what a direct multi-hop call comes to: as in a turn, and also a reply
\* without any non-empty line or with exactly four
MultiHopCallOutcomes == MultiHopOutcomes \cup [kind : {"reply"}, lines : {0, 4}]

\* the completion calls _multi_hop_reasoning makes: none without dspy
MultiHopCalls(outcome) ==
    IF outcome.kind = "unavailable" THEN <<>> ELSE <<"multi_hop">>

\* answer_question with use_multi_hop, up to the choice of the search
\* queries: search_queries = [question], replaced by the sub-queries when
\* _multi_hop_reasoning returns any
MultiHopCall(question, outcome) ==
    /\ op = Idle
    /\ LET sub_queries == MultiHopReasoning(question, outcome)
       IN  op' = [kind |-> "multi_hop", pc |-> "done", question |-> question,
                  outcome |-> outcome, calls |-> MultiHopCalls(outcome),
                  sub_queries |-> sub_queries,
                  search_queries |-> IF sub_queries # <<>> THEN sub_queries
                                     ELSE <<question>>]
    /\ UNCHANGED <<provider, points, lexical, reranker>>

MultiHopCallAny ==
    /\ op = Idle
    /\ \E question \in Questions, outcome \in MultiHopCallOutcomes :
           MultiHopCall(question, outcome)

\* a direct call of _bm25_search(query, transcript_ids, top_k)
BM25SearchCall(query, transcript_ids, top_k) ==
    /\ op = Idle
    /\ op' = [kind |-> "bm25_search", pc |-> "done", query |-> query,
              transcript_ids |-> transcript_ids, top_k |-> top_k,
              results |-> BM25Search(query, transcript_ids, top_k)]
    /\ UNCHANGED <<provider, points, lexical, reranker>>

BM25SearchCallAny ==
    /\ op = Idle
    /\ \E query \in Questions, transcript_ids \in {<<>>, <<"d1">>, <<"d2">>},
          top_k \in 1..MaxTopK :
           BM25SearchCall(query, transcript_ids, top_k)

\* The services constructed against the indexed store, every external
\* system up, a cross-encoder loaded or not.
InitCalls ==
    /\ qdrant_client = TRUE
    /\ embeddings_client = TRUE
    /\ use_local_embeddings = FALSE
    /\ local_embeddings_model = FALSE
    /\ points = IndexedStore
    /\ bm25_chunks = RebuildChunks(IndexedStore)
    /\ bm25_chunk_map = RebuildMap(IndexedStore)
    /\ bm25_index = BM25Okapi(RebuildChunks(IndexedStore))
    /\ qa_lexical = RebuiltLexical(IndexedStore)
    /\ \E load \in LoadOutcomes :
          LET r == InitReranker("None", "None", DefaultReranker, load)
          IN  reranker_model = r.model /\ reranker_model_name = r.name
    /\ op = Idle

NextCalls ==
    \/ RerankCallAny
    \/ MergeStart
    \/ MergeExtendAny
    \/ MergeDeduplicate
    \/ GradeCallAny
    \/ MultiHopCallAny
    \/ BM25SearchCallAny
    \/ Return

SpecCalls == InitCalls /\ [][NextCalls]_vars

\* ------------------------------------------- the provider in one process
\* The probe of the remote endpoint in RAGService.__init__: it answers, it
\* raises a 404 / NotFound error, or anything else raises (the client
\* cannot be built, a timeout, a connection or server error).
ProbeOutcomes == {"ok", "not_found", "error"}

\* _init_local_embeddings: one of the models loads, or none can be loaded
LocalLoads == {"loaded", "unavailable"}

SelectProviderKeepingClient(probe, load) ==
    IF probe = "ok" THEN [client |-> TRUE, use_local |-> FALSE, model |-> FALSE]
    ELSE IF load = "loaded" THEN [client |-> TRUE, use_local |-> TRUE, model |-> TRUE]
    ELSE [client |-> FALSE, use_local |-> FALSE, model |-> FALSE]

\* the provider selection of RAGService.__init__: the 404 branch and the
\* outer except clause both drop the client and call _init_local_embeddings
SelectProvider(probe, load) ==
    IF probe = "ok" THEN [client |-> TRUE, use_local |-> FALSE, model |-> FALSE]
    ELSE IF load = "loaded" THEN [client |-> FALSE, use_local |-> TRUE, model |-> TRUE]
    ELSE [client |-> FALSE, use_local |-> FALSE, model |-> FALSE]

\* Outcome of one request to the remote endpoint, the failures by class
RemoteOutcomes == {"ok", "short", "empty", "not_found", "error"}

\* both except branches of _generate_embeddings only log and fall through
RemoteResult(remote) == IF remote \in {"not_found", "error"} THEN "fail" ELSE remote

\* RAGService.__init__ against an empty vector store, op holding what the
\* constructor met.
InitProvider ==
    /\ qdrant_client \in BOOLEAN
    /\ \E probe \in ProbeOutcomes, load \in LocalLoads :
          LET c == SelectProvider(probe, load)
          IN  /\ embeddings_client = c.client
              /\ use_local_embeddings = c.use_local
              /\ local_embeddings_model = c.model
              /\ op = [kind |-> "construct", pc |-> "done", probe |-> probe, load |-> load]
    /\ points = <<>>
    /\ bm25_chunks = <<>>
    /\ bm25_chunk_map = <<>>
    /\ bm25_index = NoIndex
    /\ qa_lexical = NoLexical
    /\ \E load \in LoadOutcomes :
          LET r == InitReranker("None", "None", DefaultReranker, load)
          IN  reranker_model = r.model /\ reranker_model_name = r.name

\* a direct call of _generate_embeddings(texts) with n texts; load is what
\* _init_local_embeddings would come to in this environment
EmbedCall(n, remote, local, load) ==
    /\ op = Idle
    /\ LET e == GenerateEmbeddings(n, RemoteResult(remote), local)
           remote_failed == embeddings_client /\ RemoteResult(remote) = "fail"
           reached_local == (~embeddings_client \/ remote_failed)
                            /\ use_local_embeddings /\ local_embeddings_model
       IN  op' = [kind |-> "embed", pc |-> "done", n |-> n, remote |-> remote,
                  local |-> local, load |-> load,
                  contacted_remote |-> embeddings_client,
                  used_local |-> reached_local,
                  raised |-> e.raised, count |-> e.count,
                  error |-> IF ~e.raised THEN "none"
                            ELSE IF reached_local THEN "local" ELSE "ValueError"]
    /\ UNCHANGED <<provider, points, lexical, reranker>>

EmbedCallAny ==
    /\ op = Idle
    /\ \E n \in 1..MaxChunks, remote \in RemoteOutcomes, local \in EmbedOutcomes, load \in LocalLoads :
           /\ (use_local_embeddings => load = "loaded")
           /\ ((~embeddings_client /\ ~use_local_embeddings) => load = "unavailable")
           /\ EmbedCall(n, remote, local, load)

\* ------------------------------------------------------- the collection
\* self.embeddings_dimension: 1536 for the remote endpoint (and when no
\* provider could be selected), the model's own for the local model
RemoteDimension == 1536
LocalDimension == 384
EmbeddingsDimension == IF use_local_embeddings THEN LocalDimension ELSE RemoteDimension

\* the collection as the vector store holds it
NoCollection == [exists |-> FALSE, dim |-> 0]
Collections == {NoCollection} \cup [exists : {TRUE}, dim : {LocalDimension, RemoteDimension}]

\* What the store does with the calls of _ensure_collection: list_ok,
\* delete_ok, create_ok say whether get_collections, delete_collection and
\* create_collection succeed; info is what get_collection yields: the
\* recorded dimension, a reply without one, or an error.
EnsureEnvs == [list_ok : BOOLEAN, info : {"dim", "unknown", "raises"}, delete_ok : BOOLEAN, create_ok : BOOLEAN]

DimensionNeverDiffers(existing_dim, dim) == FALSE

\* existing_dim != self.embeddings_dimension
DimensionDiffers(existing_dim, dim) == existing_dim # dim

\* _ensure_collection(): the collection it leaves and the store calls that
\* change a collection, in the order they were issued
EnsureCollection(coll, dim, env) ==
    IF ~qdrant_client \/ ~env.list_ok THEN [coll |-> coll, calls |-> <<>>]
    ELSE IF ~coll.exists
    THEN [coll |-> IF env.create_ok THEN [exists |-> TRUE, dim |-> dim] ELSE coll,
          calls |-> <<"create">>]
    ELSE IF env.info = "dim" /\ DimensionDiffers(coll.dim, dim)
    THEN IF ~env.delete_ok THEN [coll |-> coll, calls |-> <<"delete">>]
         ELSE [coll |-> IF env.create_ok THEN [exists |-> TRUE, dim |-> dim] ELSE NoCollection,
               calls |-> <<"delete", "create">>]
    ELSE [coll |-> coll, calls |-> <<>>]

\* a call of _ensure_collection() against a store holding coll
EnsureCollectionCall(coll, env) ==
    /\ op = Idle
    /\ LET r == EnsureCollection(coll, EmbeddingsDimension, env)
       IN  /\ op' = [kind |-> "ensure", pc |-> "done", before |-> coll, env |-> env,
                     dim |-> EmbeddingsDimension, after |-> r.coll, calls |-> r.calls]
           /\ points' = IF Len(r.calls) > 0 /\ r.calls[1] = "delete" /\ env.delete_ok
                        THEN <<>> ELSE points
    /\ UNCHANGED <<provider, lexical, reranker>>

EnsureCollectionCallAny ==
    /\ op = Idle
    /\ \E coll \in Collections, env \in EnsureEnvs : EnsureCollectionCall(coll, env)

NextProvider ==
    \/ EmbedCallAny
    \/ EnsureCollectionCallAny
    \/ Return

SpecProvider == InitProvider /\ [][NextProvider]_vars

\* ------------------------------------------------------ concurrent calls
\* Two threads inside methods of the same service objects.  No method takes
\* a lock, so a thread can be pre-empted between any two statements; each
\* action below is one thread's next read or write of a shared field.  op
\* holds the position and the local variables of both threads.
Threads == {1, 2}

MaxConcSlots == 3

Conc(kind, t, pc) == op.kind = kind /\ op.pc = "run" /\ op.th[t].pc = pc

\* thread t moves on to the record rec; the call pair is over when both are
ThreadStep(t, rec) ==
    LET th == [op.th EXCEPT ![t] = rec]
    IN  [op EXCEPT !.th = th,
                   !.pc = IF \A u \in Threads : th[u].pc = "done" THEN "done" ELSE "run"]

\* Two calls of index_transcript, past their embeddings (the store answers
\* every call): each is about to delete its document's points.
ConcIndexStart(tid1, chunks1, tid2, chunks2) ==
    /\ op = Idle
    /\ LET run(tid, chunks) == [pc |-> "delete", tid |-> tid, chunks |-> chunks,
                                i |-> 1, idx |-> 0, slots |-> <<>>]
       IN  op' = [kind |-> "conc_index", pc |-> "run",
                  th |-> <<run(tid1, chunks1), run(tid2, chunks2)>>]
    /\ UNCHANGED <<provider, points, lexical, reranker>>

\* qdrant_client.delete(... transcript_id == tid)
ConcIndexDelete(t) ==
    /\ Conc("conc_index", t, "delete")
    /\ points' = DeleteByTranscript(points, op.th[t].tid)
    /\ op' = ThreadStep(t, [op.th[t] EXCEPT !.pc = "upsert"])
    /\ UNCHANGED <<provider, lexical, reranker>>

\* qdrant_client.upsert(points)
ConcIndexUpsert(t) ==
    /\ Conc("conc_index", t, "upsert")
    /\ points' = points \o NewPoints(op.th[t].tid, op.th[t].chunks)
    /\ op' = ThreadStep(t, [op.th[t] EXCEPT !.pc = "lex_read"])
    /\ UNCHANGED <<provider, lexical, reranker>>

\* _update_bm25_index, idx = len(self.bm25_chunks)
ConcLexRead(t) ==
    /\ Conc("conc_index", t, "lex_read")
    /\ op' = ThreadStep(t, [op.th[t] EXCEPT !.pc = "lex_append", !.idx = Len(bm25_chunks)])
    /\ UNCHANGED <<provider, points, lexical, reranker>>

\* _update_bm25_index, self.bm25_chunks.append(tokens); slots keeps where
\* the tokens of each chunk of the run landed
ConcLexAppend(t) ==
    /\ Conc("conc_index", t, "lex_append")
    /\ bm25_chunks' = Append(bm25_chunks, Tokenize(op.th[t].chunks[op.th[t].i]))
    /\ op' = ThreadStep(t, [op.th[t] EXCEPT !.pc = "lex_map",
                                            !.slots = Append(@, Len(bm25_chunks))])
    /\ UNCHANGED <<provider, points, bm25_chunk_map, bm25_index, qa_lexical, reranker>>

\* _update_bm25_index, self.bm25_chunk_map[idx] = (transcript_id, i, chunk_text)
ConcLexMap(t) ==
    /\ Conc("conc_index", t, "lex_map")
    /\ LET me == op.th[t]
           last == me.i = Len(me.chunks)
       IN  /\ bm25_chunk_map' =
                 [s \in DOMAIN bm25_chunk_map \cup {me.idx} |->
                     IF s = me.idx THEN <<me.tid, me.i - 1, me.chunks[me.i]>>
                     ELSE bm25_chunk_map[s]]
           /\ op' = ThreadStep(t, [me EXCEPT !.pc = IF last THEN "lex_index" ELSE "lex_read",
                                             !.i = IF last THEN @ ELSE @ + 1])
    /\ UNCHANGED <<provider, points, bm25_chunks, bm25_index, qa_lexical, reranker>>

\* _update_bm25_index, self.bm25_index = BM25Okapi(self.bm25_chunks)
ConcLexIndex(t) ==
    /\ Conc("conc_index", t, "lex_index")
    /\ bm25_index' = IF bm25_chunks # <<>> THEN BM25Okapi(bm25_chunks) ELSE bm25_index
    /\ op' = ThreadStep(t, [op.th[t] EXCEPT !.pc = "done"])
    /\ UNCHANGED <<provider, points, bm25_chunks, bm25_chunk_map, qa_lexical, reranker>>

ConcIndexStartAny ==
    /\ op = Idle
    /\ \E tid1 \in Docs, tid2 \in Docs, chunks1 \in DocTexts \ {<<>>}, chunks2 \in DocTexts \ {<<>>} :
           /\ Len(bm25_chunks) + Len(chunks1) + Len(chunks2) <= MaxConcSlots
           /\ ConcIndexStart(tid1, chunks1, tid2, chunks2)

ConcIndexStep ==
    \E t \in Threads :
        \/ ConcIndexDelete(t)
        \/ ConcIndexUpsert(t)
        \/ ConcLexRead(t)
        \/ ConcLexAppend(t)
        \/ ConcLexMap(t)
        \/ ConcLexIndex(t)

\* Thread 1 in _rebuild_bm25_index, thread 2 in _bm25_search(query, None,
\* top_k) on the same RAGService.  before is the lexical state when they
\* start.
ConcRebuildStart(query, top_k) ==
    /\ op = Idle
    /\ op' = [kind |-> "conc_rebuild", pc |-> "run", before |-> OwnLexical,
              query |-> query, top_k |-> top_k,
              th |-> <<[pc |-> "scroll", all_points |-> <<>>, i |-> 1,
                        seen_index |-> NoIndex, seen_map |-> <<>>, results |-> <<>>],
                       [pc |-> "guard", all_points |-> <<>>, i |-> 1,
                        seen_index |-> NoIndex, seen_map |-> <<>>, results |-> <<>>]>>]
    /\ UNCHANGED <<provider, points, lexical, reranker>>

\* _rebuild_bm25_index, the scroll loop
RebuildScroll ==
    /\ Conc("conc_rebuild", 1, "scroll")
    /\ op' = ThreadStep(1, [op.th[1] EXCEPT !.pc = "clear_chunks", !.all_points = points])
    /\ UNCHANGED <<provider, points, lexical, reranker>>

\* self.bm25_chunks = []
RebuildClearChunks ==
    /\ Conc("conc_rebuild", 1, "clear_chunks")
    /\ bm25_chunks' = <<>>
    /\ op' = ThreadStep(1, [op.th[1] EXCEPT !.pc = "clear_map"])
    /\ UNCHANGED <<provider, points, bm25_chunk_map, bm25_index, qa_lexical, reranker>>

\* self.bm25_chunk_map = {}
RebuildClearMap ==
    /\ Conc("conc_rebuild", 1, "clear_map")
    /\ bm25_chunk_map' = <<>>
    /\ op' = ThreadStep(1, [op.th[1] EXCEPT
                               !.pc = IF op.th[1].all_points = <<>> THEN "index" ELSE "fill"])
    /\ UNCHANGED <<provider, points, bm25_chunks, bm25_index, qa_lexical, reranker>>

\* one pass of the loop over all_points: append the tokens, set the map
\* entry under the point's position
RebuildFill ==
    /\ Conc("conc_rebuild", 1, "fill")
    /\ LET me == op.th[1]
           p == me.all_points[me.i]
           last == me.i = Len(me.all_points)
       IN  /\ IF p.chunk_text # <<>>
              THEN /\ bm25_chunks' = Append(bm25_chunks, Tokenize(p.chunk_text))
                   /\ bm25_chunk_map' =
                         [s \in DOMAIN bm25_chunk_map \cup {me.i - 1} |->
                             IF s = me.i - 1
                             THEN <<p.transcript_id, p.chunk_index, p.chunk_text>>
                             ELSE bm25_chunk_map[s]]
              ELSE UNCHANGED <<bm25_chunks, bm25_chunk_map>>
           /\ op' = ThreadStep(1, [me EXCEPT !.pc = IF last THEN "index" ELSE "fill",
                                             !.i = IF last THEN @ ELSE @ + 1])
    /\ UNCHANGED <<provider, points, bm25_index, qa_lexical, reranker>>

\* self.bm25_index = BM25Okapi(self.bm25_chunks), or None
RebuildIndex ==
    /\ Conc("conc_rebuild", 1, "index")
    /\ bm25_index' = IF bm25_chunks # <<>> THEN BM25Okapi(bm25_chunks) ELSE NoIndex
    /\ op' = ThreadStep(1, [op.th[1] EXCEPT !.pc = "done"])
    /\ UNCHANGED <<provider, points, bm25_chunks, bm25_chunk_map, qa_lexical, reranker>>

\* _bm25_search, `self.bm25_index is None`
LexSearchGuard ==
    /\ Conc("conc_rebuild", 2, "guard")
    /\ op' = ThreadStep(2, [op.th[2] EXCEPT !.pc = IF bm25_index.present THEN "scores" ELSE "done"])
    /\ UNCHANGED <<provider, points, lexical, reranker>>

\* _bm25_search, self.bm25_index.get_scores(query_tokens); on None the
\* except clause returns []
LexSearchScores ==
    /\ Conc("conc_rebuild", 2, "scores")
    /\ op' = ThreadStep(2, [op.th[2] EXCEPT !.pc = IF bm25_index.present THEN "collect" ELSE "done",
                                            !.seen_index = bm25_index])
    /\ UNCHANGED <<provider, points, lexical, reranker>>

\* _bm25_search, the result loop reading self.bm25_chunk_map
LexSearchCollect ==
    /\ Conc("conc_rebuild", 2, "collect")
    /\ LET me == op.th[2]
           scores == GetScores(me.seen_index.corpus, Tokenize(op.query))
           order == SortDesc([i \in 1..Len(scores) |-> i], scores)
       IN  op' = ThreadStep(2, [me EXCEPT !.pc = "done", !.seen_map = bm25_chunk_map,
                                   !.results = BM25Collect(bm25_chunk_map, Take(order, op.top_k * 2),
                                                           scores, <<>>, op.top_k, <<>>)])
    /\ UNCHANGED <<provider, points, lexical, reranker>>

ConcRebuildStartAny ==
    /\ op = Idle
    /\ \E query \in Questions, top_k \in 1..MaxTopK : ConcRebuildStart(query, top_k)

ConcRebuildStep ==
    \/ RebuildScroll
    \/ RebuildClearChunks
    \/ RebuildClearMap
    \/ RebuildFill
    \/ RebuildIndex
    \/ LexSearchGuard
    \/ LexSearchScores
    \/ LexSearchCollect

\* Two turns of answer_question at the reranking step, each asking for a
\* cross-encoder of its own; load is what loading it comes to.
ConcRerankStart(choice1, load1, choice2, load2) ==
    /\ op = Idle
    /\ LET turn(choice, load) == [pc |-> "check", reranker_model |-> choice, load |-> load,
                                  scored_by |-> "none"]
       IN  op' = [kind |-> "conc_rerank", pc |-> "run",
                  th |-> <<turn(choice1, load1), turn(choice2, load2)>>]
    /\ UNCHANGED <<provider, points, lexical, reranker>>

\* answer_question, `reranker_model != self.reranker_model_name`
ConcRerankCheck(t) ==
    /\ Conc("conc_rerank", t, "check")
    /\ op' = ThreadStep(t, [op.th[t] EXCEPT
                               !.pc = IF op.th[t].reranker_model # reranker_model_name
                                      THEN "load" ELSE "use"])
    /\ UNCHANGED <<provider, points, lexical, reranker>>

\* _init_reranker(reranker_model)
ConcRerankLoad(t) ==
    /\ Conc("conc_rerank", t, "load")
    /\ LET r == InitReranker(reranker_model, reranker_model_name,
                             op.th[t].reranker_model, op.th[t].load)
       IN  reranker_model' = r.model /\ reranker_model_name' = r.name
    /\ op' = ThreadStep(t, [op.th[t] EXCEPT !.pc = "use"])
    /\ UNCHANGED <<provider, points, lexical>>

\* answer_question, `self.reranker_model is not None`: the specialized
\* reranker, else the LLM one
ConcRerankUse(t) ==
    /\ Conc("conc_rerank", t, "use")
    /\ op' = ThreadStep(t, IF reranker_model # "None" THEN [op.th[t] EXCEPT !.pc = "predict"]
                           ELSE [op.th[t] EXCEPT !.pc = "done", !.scored_by = "llm"])
    /\ UNCHANGED <<provider, points, lexical, reranker>>

\* _rerank_chunks_specialized: self.reranker_model.predict(pairs), or the
\* original order when the model is None by now
ConcRerankPredict(t) ==
    /\ Conc("conc_rerank", t, "predict")
    /\ op' = ThreadStep(t, [op.th[t] EXCEPT !.pc = "done",
                               !.scored_by = IF reranker_model = "None" THEN "original"
                                             ELSE reranker_model])
    /\ UNCHANGED <<provider, points, lexical, reranker>>

ConcRerankStartAny ==
    /\ op = Idle
    /\ \E choice1 \in RerankerChoices \ {"llm"}, choice2 \in RerankerChoices \ {"llm"},
          load1 \in LoadOutcomes, load2 \in LoadOutcomes :
           ConcRerankStart(choice1, load1, choice2, load2)

ConcRerankStep ==
    \E t \in Threads :
        \/ ConcRerankCheck(t)
        \/ ConcRerankLoad(t)
        \/ ConcRerankUse(t)
        \/ ConcRerankPredict(t)

\* A process started against an empty store, every external system up.
InitConc ==
    /\ qdrant_client = TRUE
    /\ embeddings_client = TRUE
    /\ use_local_embeddings = FALSE
    /\ local_embeddings_model = FALSE
    /\ points = <<>>
    /\ bm25_chunks = <<>>
    /\ bm25_chunk_map = <<>>
    /\ bm25_index = NoIndex
    /\ qa_lexical = NoLexical
    /\ LET r == InitReranker("None", "None", DefaultReranker, "first")
       IN  reranker_model = r.model /\ reranker_model_name = r.name
    /\ op = Idle

NextConc ==
    \/ ConcIndexStartAny
    \/ ConcIndexStep
    \/ ConcRebuildStartAny
    \/ ConcRebuildStep
    \/ Return

SpecConc == InitConc /\ [][NextConc]_vars

NextConcRerank ==
    \/ ConcRerankStartAny
    \/ ConcRerankStep
    \/ Return

SpecConcRerank == InitConc /\ [][NextConcRerank]_vars

\* ------------------------------------- deletion followed by searches
\* One RAGService over the indexed store: delete_transcript_index and
\* direct searches, no indexing run.  A document of the indexed store has
\* no point left exactly when a delete of it returned True.
NextDelete ==
    \/ DeleteTranscriptIndexAny
    \/ SearchCallAny
    \/ HybridSearchCallAny
    \/ Return

SpecDelete == InitCalls /\ [][NextDelete]_vars

\* ------------------------------------- a store written by other means
\* The services constructed over a store whose points were not all written
\* by index_transcript: a point may carry an empty chunk_text (payload
\* written by another tool or an earlier version).  Every system is up;
\* _rebuild_bm25_index has run in both RAGService instances.
StoredPoints ==
    {[transcript_id |-> "d2", chunk_index |-> 0, chunk_text |-> <<>>], [transcript_id |-> "d1", chunk_index |-> 0, chunk_text |-> <<"A">>]}
StoredStores == UNION {[1..n -> StoredPoints] : n \in 0..(MaxPoints - 1)}

InitStored ==
    /\ qdrant_client = TRUE
    /\ embeddings_client = TRUE
    /\ use_local_embeddings = FALSE
    /\ local_embeddings_model = FALSE
    /\ points \in StoredStores
    /\ bm25_chunks = RebuildChunks(points)
    /\ bm25_chunk_map = RebuildMap(points)
    /\ bm25_index = RebuiltLexical(points).bm25_index
    /\ qa_lexical = RebuiltLexical(points)
    /\ LET r == InitReranker("None", "None", DefaultReranker, "first")
       IN  reranker_model = r.model /\ reranker_model_name = r.name
    /\ op = Idle

NextStored ==
    \/ IndexStartAny
    \/ IndexEmbedAny
    \/ IndexDeleteAny
    \/ IndexUpsertAny
    \/ IndexRecoverAny
    \/ RestartAny
    \/ Return

SpecStored == InitStored /\ [][NextStored]_vars

\* ------------------------------------------------------------- claims
IndexRun == op.kind = "index"
IndexDone == op.kind = "index" /\ op.pc = "done"

\* C1: within one call of index_transcript every value passed to the
\* progress callback lies in [0,1] and is at least every value passed
\* earlier in the same call.
C1_ProgressMonotone ==
    IndexRun =>
        /\ \A i \in 1..Len(op.progress) :
              FracLeq(Frac(0, 1), op.progress[i]) /\ FracLeq(op.progress[i], Frac(1, 1))
        /\ \A i \in 1..Len(op.progress), j \in 1..Len(op.progress) :
              i < j => FracLeq(op.progress[i], op.progress[j])

\* a long run whose loop skipped chunks has reported 0.8 and gone on
C1_Witness ==
    /\ IndexDone /\ op.status = "returned" /\ op.path = "upsert"
    /\ Len(op.chunks) >= 2 * LoopStride
    /\ Len(op.progress) < Len(op.chunks)

\* C2: a run that returns the number of chunks it indexed ends with a
\* progress callback at 1.0, the recovery path included.
C2_SuccessEndsAtOne ==
    (IndexDone /\ op.status = "returned" /\ op.ret > 0 /\ op.with_cb) =>
        /\ op.progress # <<>>
        /\ FracEq(op.progress[Len(op.progress)], Frac(1, 1))

\* C3: after a successful run whose delete step succeeded the vector index
\* holds, for that document, exactly the points of this run: one per
\* chunk index and as many as the run returned.
C3_ReindexReplaces ==
    (IndexDone /\ op.status = "returned" /\ op.ret > 0 /\ op.del_ok) =>
        /\ PointsOf(points, op.tid) = NewPoints(op.tid, op.chunks)
        /\ Len(PointsOf(points, op.tid)) = op.ret

\* the document had points of an earlier run when this run began
C3_Witness ==
    /\ IndexDone /\ op.status = "returned" /\ op.ret > 0 /\ op.del_ok
    /\ op.prior
    /\ \E p \in 1..Len(points) : points[p].transcript_id # op.tid

\* C4: no two slots of the lexical index carry the same
\* (document_id, chunk_index).
C4_LexicalKeysUnique ==
    \A s \in DOMAIN bm25_chunk_map, t \in DOMAIN bm25_chunk_map :
        (s # t) =>
            <<bm25_chunk_map[s][1], bm25_chunk_map[s][2]>> #
            <<bm25_chunk_map[t][1], bm25_chunk_map[t][2]>>

QATurn == op.kind = "qa"
QAReturned == op.kind = "qa" /\ op.pc = "done" /\ op.status = "returned"
QARaised == op.kind = "qa" /\ op.pc = "done" /\ op.status = "raised"
SearchDone == op.kind = "search" /\ op.pc = "done"

\* C5: a vector search given document ids returns only chunks of those
\* documents, and every indexed chunk of any of them can be returned: with
\* a limit that covers the whole index, a search that did not fail returns
\* all of them (document_id IN set), two or more ids included.
C5_FilterIsMembership ==
    (SearchDone /\ ~op.failed /\ op.transcript_ids # <<>>) =>
        /\ \A r \in 1..Len(op.results) : MatchesAnyId(op.results[r], op.transcript_ids)
        /\ (op.top_k >= Len(points)) =>
              \A p \in 1..Len(points) :
                  MatchesAnyId(points[p], op.transcript_ids) =>
                      \E r \in 1..Len(op.results) : Key(op.results[r]) = Key(points[p])

\* C6: a turn whose retrieval yields no chunks returns the no-information
\* response (empty sources, empty retrieved_chunks, quality_score 0) and
\* makes neither the synthesis call nor a grading call.
C6_NoChunksNoSynthesis ==
    (QATurn /\ op.status # "raised" /\ op.pc \in {"synthesize", "grade", "done"}
       /\ op.chunks = <<>>) =>
        /\ op.pc = "done"
        /\ op.result = NoInformation
        /\ \A k \in 1..Len(op.llm_calls) :
              op.llm_calls[k] \notin {"synthesize", "grade_groundedness",
                                      "grade_completeness"}

\* the ids name only a document that is not indexed and no search failed
C6_Witness ==
    /\ QAReturned /\ op.result = NoInformation
    /\ op.transcript_ids = <<Unindexed>>
    /\ op.failed_searches = 0
    /\ op.searched >= 2

\* C7: whenever the embedding provider cannot serve the request,
\* index_transcript returns 0 and does not raise.
C7_UnavailableReturnsZero ==
    (IndexDone /\ op.path \in {"no_embeddings", "embed_raised"}) =>
        /\ op.status = "returned"
        /\ op.ret = 0

\* C8 as stated: a turn in which a search failed does not return a result.
C8_SearchFailureFailsTurn ==
    QAReturned => op.failed_searches = 0

\* C8: a failed search does not fail the turn.  No turn is raised by the
\* retrieval step, and a turn all of whose searches failed, with no lexical
\* results to fall back on, returns the no-information response.
C8_SearchFailureDegrades ==
    /\ QARaised => op.failed_step # "retrieve"
    /\ (QATurn /\ op.status # "raised" /\ op.pc \in {"rerank", "synthesize", "grade", "done"}
          /\ op.failed_searches = Len(op.search_queries)
          /\ (~op.use_hybrid_search \/ ~qa_lexical.bm25_index.present)) =>
            /\ op.unique_chunks = <<>>
            /\ op.pc = "done" => (op.status = "returned" /\ op.result = NoInformation)

\* the store is up and every search call of a several-query turn failed
C8_Witness ==
    /\ QAReturned /\ qdrant_client /\ embeddings_client
    /\ Len(op.search_queries) >= 2
    /\ op.failed_searches = Len(op.search_queries)
    /\ op.result = NoInformation

\* C9: failures in reformulation, reranking and advanced grading do not
\* abort a turn: only the synthesis step raises, and a returned turn in
\* which such a step failed has that step's default (the question alone,
\* the candidates by original score, the heuristic grade).
C9_SoftFailuresDoNotAbort ==
    /\ QARaised => op.failed_step = "synthesize"
    /\ (QAReturned /\ op.result.answer = "llm") =>
          /\ "reformulate" \in op.soft_failures => op.search_queries = <<op.question>>
          /\ "rerank" \in op.soft_failures =>
                op.result.retrieved_chunks = Take(SortByScore(op.unique_chunks), op.top_k)
          /\ "grade" \in op.soft_failures => op.result.graded_by = "heuristic_fallback"

\* a turn that returned an answer although all three steps failed
C9_Witness ==
    /\ QAReturned /\ op.result.answer = "llm"
    /\ op.soft_failures = {"reformulate", "rerank", "grade"}
    /\ op.result.retrieved_chunks # <<>>

ConnectFailures == {"httpx.ConnectError", "httpx.TimeoutException"}

\* C10 as stated: a synthesis failure is raised as ConnectionError exactly
\* when it is a connect or timeout failure, and unchanged otherwise.
C10_OthersUnchanged ==
    (QARaised /\ op.failed_step = "synthesize") =>
        IF op.error.cause.class \in ConnectFailures
        THEN op.error.class = "ConnectionError"
        ELSE op.error.class = op.error.cause.class

\* C10: a synthesis failure aborts the turn; it is raised as
\* ConnectionError when it is a connect or timeout failure or when its
\* message contains "connection", "timeout" or "refused", and unchanged
\* otherwise.
C10_SynthesisFailureClassified ==
    /\ (QATurn /\ op.status = "returned" /\ op.result.answer = "llm") =>
          \E k \in 1..Len(op.llm_calls) : op.llm_calls[k] = "synthesize"
    /\ (QARaised /\ op.failed_step = "synthesize") =>
          IF op.error.cause.class \in ConnectFailures \/ op.error.cause.mentions
          THEN op.error.class = "ConnectionError"
          ELSE op.error.class = op.error.cause.class

\* a failure of another class whose message mentions a timeout
C10_Witness ==
    /\ QARaised /\ op.failed_step = "synthesize"
    /\ op.error.cause.class = "Exception" /\ op.error.cause.mentions
    /\ op.error.class = "ConnectionError"

RerankDone == op.kind = "rerank" /\ op.pc = "done"

\* s is in descending order of score
SortedByScore(s) == \A i \in 1..Len(s), j \in 1..Len(s) : i < j => s[i].score >= s[j].score

\* s and t hold the same chunks, each as often in one as in the other
SameChunks(s, t) ==
    /\ Len(s) = Len(t)
    /\ \A c \in {s[i] : i \in 1..Len(s)} \cup {t[i] : i \in 1..Len(t)} :
          Cardinality({i \in 1..Len(s) : s[i] = c}) = Cardinality({i \in 1..Len(t) : t[i] = c})

Occurrences(s, c) == Cardinality({i \in 1..Len(s) : s[i] = c})

\* result is the top_k best of chunks by original score, best first:
\* descending, taken from chunks, and leaving out no chunk that scores
\* higher than one it holds
TopByScore(result, chunks, top_k) ==
    /\ Len(result) = Min(top_k, Len(chunks))
    /\ SortedByScore(result)
    /\ \A i \in 1..Len(result) : Occurrences(result, result[i]) <= Occurrences(chunks, result[i])
    /\ \A j \in 1..Len(chunks), i \in 1..Len(result) :
          chunks[j].score > result[i].score =>
              Occurrences(result, chunks[j]) = Occurrences(chunks, chunks[j])

\* the call inside the strategy raised, or the LLM's reply has no number
RerankFailedInside ==
    /\ RerankDone /\ op.calls # <<>>
    /\ ~op.call_ok \/ (op.strategy = "llm" /\ op.reply = <<>>)

\* C12: a failure inside a reranking strategy (predict raising, the
\* completion call raising, a reply without numbers) is not propagated; the
\* strategy returns the top_k candidates in descending original score.
C12_FailureFallsBackToScore ==
    RerankFailedInside => TopByScore(op.result, op.chunks, op.top_k)

\* the completion call raised on candidates whose input order is not the
\* score order
C12_Witness ==
    /\ RerankFailedInside /\ op.strategy = "llm" /\ ~op.call_ok
    /\ op.result # Take(op.chunks, op.top_k)
    /\ Len(op.result) = op.top_k

HybridDone == op.kind = "hybrid" /\ op.pc = "done"

\* the score a side gave the key, 0 when the side did not return the key
SideScore(side, key) ==
    IF \E k \in 1..Len(side) : Key(side[k]) = key
    THEN side[CHOOSE k \in 1..Len(side) :
                 /\ Key(side[k]) = key
                 /\ \A j \in 1..(k - 1) : Key(side[j]) # key].score
    ELSE 0

\* C13: hybrid_search gives every key it returns the score
\* vector_weight * vectorScore + bm25_weight * lexicalScore, an absent side
\* counting 0; each key is returned once; the output is in descending
\* order of that score and has at most top_k entries.  (Weights in tenths.)
C13_HybridScore ==
    HybridDone =>
        /\ Len(op.results) <= op.top_k
        /\ SortedByScore(op.results)
        /\ \A i \in 1..Len(op.results), j \in 1..Len(op.results) :
              i # j => Key(op.results[i]) # Key(op.results[j])
        /\ \A i \in 1..Len(op.results) :
              10 * op.results[i].score =
                  VectorWeight * SideScore(op.vector_results, Key(op.results[i]))
                  + BM25Weight * SideScore(op.bm25_results, Key(op.results[i]))

MergeDone == op.kind = "merge" /\ op.pc = "done"

RECURSIVE Flatten(_)
Flatten(lists) == IF lists = <<>> THEN <<>> ELSE Head(lists) \o Flatten(Tail(lists))

\* the positions of all_chunks that hold the first occurrence of their key
FirstOccurrences(all_chunks) ==
    {k \in 1..Len(all_chunks) : \A j \in 1..(k - 1) : Key(all_chunks[j]) # Key(all_chunks[k])}

\* C14: the merge concatenates the per-query results in query order and
\* keeps, for every (document_id, chunk_index), exactly the first
\* occurrence, with its own score and content, in the order of the first
\* occurrences.
C14_FirstOccurrenceWins ==
    MergeDone =>
        LET firsts == FirstOccurrences(op.all_chunks)
        IN  /\ op.all_chunks = Flatten(op.per_query)
            /\ Len(op.unique_chunks) = Cardinality(firsts)
            /\ \A k \in firsts :
                  op.unique_chunks[Cardinality({j \in firsts : j <= k})] = op.all_chunks[k]

\* a later query returned a key again, with another score
C14_Witness ==
    /\ MergeDone /\ Len(op.per_query) >= 2
    /\ \E i \in 1..Len(op.per_query[1]), j \in 1..Len(op.per_query[2]) :
          /\ Key(op.per_query[1][i]) = Key(op.per_query[2][j])
          /\ op.per_query[1][i].score # op.per_query[2][j].score
    /\ Len(op.unique_chunks) >= 2

ExpansionCalls == {"expand_reformulate", "expand_hypothetical"}
CallsMade(o) == {o.llm_calls[k] : k \in 1..Len(o.llm_calls)}

\* the query lists multi-hop decomposition can leave for a question
MultiHopQueries(question) ==
    {<<question>>} \cup
    ({MultiHopReasoning(question, outcome) : outcome \in MultiHopOutcomes} \ {<<>>})

\* C15: with use_multi_hop the expansion strategy does not run, whether
\* or not use_query_expansion is set: no expansion call is made and the
\* queries searched are the question or the sub-queries; in no turn do
\* both strategies make calls.
C15_MultiHopExcludesExpansion ==
    (QATurn /\ op.status # "raised") =>
        /\ op.use_multi_hop =>
              /\ CallsMade(op) \cap ExpansionCalls = {}
              /\ op.pc # "reformulate" => op.search_queries \in MultiHopQueries(op.question)
        /\ ~("multi_hop" \in CallsMade(op) /\ CallsMade(op) \cap ExpansionCalls # {})

\* both flags set, the sub-queries searched, an answer returned
C15_Witness ==
    /\ QAReturned /\ op.use_multi_hop /\ op.use_query_expansion
    /\ "multi_hop" \in CallsMade(op)
    /\ Len(op.search_queries) >= 2
    /\ op.searched = Len(op.search_queries)
    /\ op.result.answer = "llm"


GradeDone == op.kind = "grade" /\ op.pc = "done"

InUnit(x) == x >= 0 /\ x <= 1000

GradeInBounds ==
    /\ op.quality_score >= 0 /\ op.quality_score <= 5000
    /\ op.simple_score >= 0 /\ op.simple_score <= 5000
    /\ op.use_advanced_grading =>
           /\ InUnit(op.quality_metrics.groundedness)
           /\ InUnit(op.quality_metrics.completeness)
           /\ InUnit(op.quality_metrics.relevance)

\* C16 as stated: both graders return an overall score in [0,5] and
\* groundedness, completeness and relevance in [0,1], and an answer that is
\* empty or shorter than 10 characters is scored exactly 1.0 by either.
C16_ShortAnswerScoresOne ==
    GradeDone => /\ GradeInBounds
                 /\ op.answer.len < 10 => op.quality_score = 1000

\* C16: both graders return an overall score in [0,5] and groundedness,
\* completeness and relevance in [0,1]; an answer that is empty or shorter
\* than 10 characters is scored exactly 1.0 by the heuristic grader, which
\* is also the overall score when the advanced grader falls back to it.
C16_BoundsAndShortCircuit ==
    GradeDone => /\ GradeInBounds
                 /\ op.answer.len < 10 =>
                        /\ op.simple_score = 1000
                        /\ (~op.use_advanced_grading \/ op.failed) => op.quality_score = 1000

\* a graded answer whose unclamped score is above 5, and one too short
C16_Witness ==
    /\ GradeDone
    /\ op.answer.len >= 10
    /\ BaseScore(op.answer, op.chunks, op.top_k, op.use_reranking, op.use_hybrid_search) > 5000
    /\ op.quality_score = 5000

\* C17: when a grading call of the advanced grader raises, the grader
\* returns groundedness = completeness = 0.5, relevance = heuristic / 5 and
\* an overall score equal to the heuristic score.
C17_AdvancedFallsBack ==
    (GradeDone /\ op.failed) =>
        /\ op.quality_metrics.groundedness = 500
        /\ op.quality_metrics.completeness = 500
        /\ op.quality_metrics.relevance = op.simple_score \div 5
        /\ op.quality_metrics.overall_score = op.simple_score
        /\ op.quality_score = op.simple_score

C17_Witness ==
    /\ GradeDone
    /\ op.failed
    /\ op.answer.len >= 10
    /\ op.simple_score > 1000


EmbedDone == op.kind = "embed" /\ op.pc = "done"

RemoteCannotServe == ~op.contacted_remote \/ op.remote \in {"not_found", "error"}

LocalCannotServe == op.load = "unavailable" \/ op.local = "fail"

\* C18: a request whose remote call fails with not-found is served by the
\* local fallback model, which is the provider from then on, and a request
\* fails with the embeddings-unavailable error only if neither the remote
\* endpoint nor a local model can serve it.
C18_NotFoundSwitchesToLocal ==
    EmbedDone =>
        /\ (op.contacted_remote /\ op.remote = "not_found" /\ op.load = "loaded") =>
               (op.used_local /\ use_local_embeddings)
        /\ op.error = "ValueError" => (RemoteCannotServe /\ LocalCannotServe)

C20_OtherErrorsKeepProvider ==
    /\ (op.kind = "construct" /\ op.probe = "error") =>
           (embeddings_client /\ ~use_local_embeddings)
    /\ (EmbedDone /\ op.contacted_remote /\ op.remote = "error") =>
           (embeddings_client /\ ~use_local_embeddings /\ ~op.used_local)


EnsureDone == op.kind = "ensure" /\ op.pc = "done"

\* C21: with a store that answers, _ensure_collection creates an absent
\* collection with the active dimension; a collection recorded with another
\* dimension is deleted and created again with the active one; a collection
\* recorded with the active dimension sees no create and no delete.
C21_EnsureByDimension ==
    (EnsureDone /\ qdrant_client /\ op.env.list_ok) =>
        /\ ~op.before.exists =>
               /\ op.calls = <<"create">>
               /\ op.env.create_ok => op.after = [exists |-> TRUE, dim |-> op.dim]
        /\ (op.before.exists /\ op.env.info = "dim" /\ op.before.dim # op.dim) =>
               /\ op.calls = IF op.env.delete_ok THEN <<"delete", "create">> ELSE <<"delete">>
               /\ (op.env.delete_ok /\ op.env.create_ok) =>
                      op.after = [exists |-> TRUE, dim |-> op.dim]
        /\ (op.before.exists /\ op.env.info = "dim" /\ op.before.dim = op.dim) =>
               /\ op.calls = <<>>
               /\ op.after = op.before

\* a collection of the remote dimension met by a process on the local model
C21_Witness ==
    /\ EnsureDone
    /\ use_local_embeddings
    /\ op.before = [exists |-> TRUE, dim |-> RemoteDimension]
    /\ op.calls = <<"delete", "create">>
    /\ op.after = [exists |-> TRUE, dim |-> LocalDimension]


\* C22: an upsert that fails with a dimension mismatch leads to the
\* recreation of the collection and one retry, whose failure propagates;
\* an upsert that fails with any other error propagates with no recreation
\* and no retry.
C22_RecoveryOnlyOnMismatch ==
    IndexDone =>
        /\ op.upsert = "dimension" => op.path \in {"recovered", "recover_raised"}
        /\ op.path = "recover_raised" => op.status = "raised"
        /\ op.upsert \in {"got", "error"} => (op.path = "upsert_raised" /\ op.status = "raised")

\* C26: a run whose progress callback raises is not aborted: it returns.
C26_CallbackFailureIgnored ==
    (IndexDone /\ op.with_cb /\ op.cb_raises) => op.status = "returned"


SearchCallDone == op.kind = "search_call" /\ op.pc = "done"

\* C27 as stated: a search whose vector side is unavailable or fails
\* returns an empty list.
C27_FailedSearchIsEmpty ==
    (SearchCallDone /\ op.failed) => (op.status = "returned" /\ op.results = <<>>)

\* C27: a search whose vector side is unavailable or fails does not raise;
\* it returns an empty list when it is a vector search or the vector store
\* client is absent, and with use_hybrid the results of the lexical index
\* alone, weighted, sorted and cut to top_k.
C27_FailedSearchDegrades ==
    (SearchCallDone /\ op.failed) =>
        /\ op.status = "returned"
        /\ (~op.use_hybrid \/ ~qdrant_client) => op.results = <<>>
        /\ op.use_hybrid =>
               op.results = Take(SortByScore(MergeWeighted(<<>>, op.bm25_results, BM25Weight)),
                                 op.top_k)

\* the store is up, the vector side of a vector search failed
C27_Witness ==
    /\ SearchCallDone /\ op.failed /\ ~op.use_hybrid
    /\ qdrant_client /\ embeddings_client
    /\ QdrantSearch(op.query, op.transcript_ids, op.top_k) # <<>>
    /\ op.results = <<>>


\* C28: with no vector store client, index_transcript returns 0 having
\* called nothing (no callback, no embedding, no delete, no upsert) and
\* delete_transcript_index returns False; the points and the lexical index
\* are as they were.
C28_NoClientNoEffect ==
    [][(~qdrant_client /\ op = Idle /\ op'.kind \in {"index", "delete"}) =>
           /\ op'.pc = "done"
           /\ UNCHANGED <<points, bm25_chunks, bm25_chunk_map, bm25_index>>
           /\ op'.kind = "index" =>
                  /\ op'.status = "returned" /\ op'.ret = 0
                  /\ op'.path = "no_qdrant" /\ op'.progress = <<>>
           /\ op'.kind = "delete" => op'.ret = FALSE]_vars

\* an indexing run with a callback and a provider, started without a client
C28_Witness ==
    /\ IndexDone /\ ~qdrant_client /\ embeddings_client
    /\ op.with_cb /\ Len(op.chunks) > 0
    /\ op.path = "no_qdrant" /\ op.ret = 0


RECURSIVE MapEntries(_, _)
MapEntries(chunk_map, n) ==
    IF n = 0 THEN {}
    ELSE MapEntries(chunk_map, n - 1) \cup
         (IF (n - 1) \in DOMAIN chunk_map THEN {chunk_map[n - 1]} ELSE {})

\* C29: after an indexing run has succeeded, the lexical index that
\* answer_question searches holds the chunks of that run.
C29_QASeesIndexedChunks ==
    (IndexDone /\ op.status = "returned" /\ op.ret > 0) =>
        \A i \in 1..Len(op.chunks) :
            <<op.tid, i - 1, op.chunks[i]>> \in
                MapEntries(qa_lexical.bm25_chunk_map, MaxSlots + MaxPoints)


ConcIndexDone == op.kind = "conc_index" /\ op.pc = "done"

\* C23: after two concurrent indexing runs of one document have completed,
\* no two points of the vector index have the same (document, chunk index).
C23_ConcurrentReindexUnique ==
    (ConcIndexDone /\ op.th[1].tid = op.th[2].tid) =>
        \A i \in 1..Len(points), j \in 1..Len(points) :
            i # j => Key(points[i]) # Key(points[j])

\* C25: after two concurrent lexical updates, the slot in which each chunk's
\* tokens were put maps to that chunk's (document, chunk index, text).
C25_LexicalWritesExclusive ==
    ConcIndexDone =>
        \A t \in Threads : \A i \in 1..Len(op.th[t].chunks) :
            /\ op.th[t].slots[i] \in DOMAIN bm25_chunk_map
            /\ bm25_chunk_map[op.th[t].slots[i]] = <<op.th[t].tid, i - 1, op.th[t].chunks[i]>>


ConcRebuildDone == op.kind = "conc_rebuild" /\ op.pc = "done"

ConcRerankDone == op.kind = "conc_rerank" /\ op.pc = "done"

\* C30: a turn that asked for a cross-encoder is scored by a model loaded
\* for that name, by the LLM reranker or left in the original order.
C30_RerankerPerCall ==
    ConcRerankDone =>
        \A t \in Threads :
            \/ op.th[t].scored_by \in {"llm", "original"}
            \/ \E k \in 1..Len(ModelsToTry(op.th[t].reranker_model)) :
                   op.th[t].scored_by = ModelsToTry(op.th[t].reranker_model)[k]

\* the LLM was asked and replied
RerankLLMReplied ==
    RerankDone /\ op.strategy = "llm" /\ op.calls # <<>> /\ op.call_ok

\* the numbers among the first top_k of the reply that name a candidate
ValidNumbers(reply, top_k, n) ==
    SelectSeq(Take(reply, top_k), LAMBDA x : 1 <= x /\ x <= n)

\* C31: LLM reranking takes the first top_k integers of the reply and maps
\* the in-range ones to candidates; with top_k valid numbers it returns
\* those candidates in the order the LLM gave, with fewer it returns the
\* top_k candidates by descending original score, not the partial list.
C31_LLMOrderOrScoreFallback ==
    RerankLLMReplied =>
        LET valid == ValidNumbers(op.reply, op.top_k, Len(op.chunks))
        IN  IF Len(valid) = op.top_k
            THEN op.result = [k \in 1..op.top_k |-> op.chunks[valid[k]]]
            ELSE TopByScore(op.result, op.chunks, op.top_k)

\* a reply with one valid number out of the two asked for, on candidates
\* whose best two by score are not the first two handed in
C31_Witness ==
    /\ RerankLLMReplied /\ op.top_k = 2
    /\ Len(ValidNumbers(op.reply, op.top_k, Len(op.chunks))) = 1
    /\ op.result # Take(op.chunks, op.top_k)
    /\ \A i \in 1..Len(op.result) : op.result[i].score = 900

\* a full reply is followed in the order the LLM gave, against the scores
C31_WitnessOrder ==
    /\ RerankLLMReplied /\ op.reply = <<2, 1>> /\ op.top_k = 2
    /\ op.result[1].score < op.result[2].score

\* the first position of call c in the calls of the run, 0 when absent
FirstCall(calls, c) ==
    IF \E i \in 1..Len(calls) : calls[i] = c
    THEN CHOOSE i \in 1..Len(calls) : calls[i] = c /\ \A j \in 1..(i - 1) : calls[j] # c
    ELSE 0

C33_LexicalOnlyOnSuccess ==
    [][(op.kind = "index" /\ op'.kind = "index") =>
          /\ <<bm25_chunks, bm25_chunk_map, bm25_index>>' # <<bm25_chunks, bm25_chunk_map, bm25_index>> =>
                /\ op'.path \in {"upsert", "recovered", "callback_raised_at_end"}
                /\ op'.calls[Len(op'.calls)] = "upsert"
                /\ Len(PointsOf(points', op.tid)) >= Len(op.chunks)
          /\ (op'.pc = "done" /\ (op'.status = "raised" \/ op'.ret = 0)) =>
                <<bm25_chunks, bm25_chunk_map, bm25_index>>' = <<bm25_chunks, bm25_chunk_map, bm25_index>>]_vars

\* every point of s is in t, as often as in s
ContainsAll(t, s) == \A i \in 1..Len(s) : Occurrences(s, s[i]) <= Occurrences(t, s[i])

\* C37: an indexing run that raises does not reduce the stored data of a
\* previously indexed document: after the failed run the vector index
\* still holds at least the chunks the document had before the run.
C37_FailedRunKeepsOldChunks ==
    (IndexDone /\ op.status = "raised") => ContainsAll(PointsOf(points, op.tid), op.before)

\* the turn tried to load the requested cross-encoder and no path loaded;
\* the state right after the reranking step
RerankerLoadFailed ==
    /\ op.kind = "qa" /\ op.status = "running" /\ op.pc = "synthesize"
    /\ op.reranker_load = "failed"

\* C34: when the requested cross-encoder model cannot be loaded, reranking
\* for that turn uses the LLM strategy: it does not use a model loaded
\* earlier and it does not raise.
C34_LoadFailureUsesLLM ==
    /\ RerankerLoadFailed =>
          /\ reranker_model = "None"
          /\ Len(op.llm_calls) > 0 /\ op.llm_calls[Len(op.llm_calls)] = "rerank"
          /\ \A i \in 1..Len(op.chunks) : "rerank_score" \notin DOMAIN op.chunks[i]
          /\ Len(op.chunks) = op.top_k
    /\ QARaised => op.failed_step # "rerank"

\* the load failed while the default model, loaded at construction, was
\* held
C34_Witness ==
    /\ RerankerLoadFailed
    /\ op.reranker_choice = "bge-reranker-v2-m3"
    /\ op.reranker_before = "cross-encoder/ms-marco-MiniLM-L-6-v2"

MultiHopDone == op.kind = "multi_hop" /\ op.pc = "done"

\* C35: multi-hop decomposition makes one LLM call (none when it is
\* unavailable, never more) and yields at most 4 sub-queries; if the reply
\* has only one non-empty line, or the call fails, the original question
\* alone is the search query.
C35_MultiHopOneCallAtMostFour ==
    MultiHopDone =>
        /\ Len(op.calls) <= 1
        /\ op.outcome.kind # "unavailable" => op.calls = <<"multi_hop">>
        /\ Len(op.sub_queries) <= 4 /\ Len(op.search_queries) <= 4
        /\ op.outcome.kind = "reply" /\ op.outcome.lines >= 2 =>
              op.search_queries = SubSeq(ReplyLines, 1, Min(op.outcome.lines, 4))
        /\ (op.outcome.kind = "fail" \/ (op.outcome.kind = "reply" /\ op.outcome.lines <= 1)) =>
              op.search_queries = <<op.question>>

\* a reply of five lines, cut to four sub-queries
C35_Witness ==
    /\ MultiHopDone /\ op.outcome.kind = "reply" /\ op.outcome.lines = 5
    /\ Len(op.search_queries) = 4 /\ op.search_queries # <<op.question>>

\* a reply of one line that is not the question: the question is searched
C35_WitnessOneLine ==
    /\ MultiHopDone /\ op.outcome.kind = "reply" /\ op.outcome.lines = 1
    /\ ReplyLines[1] # op.question /\ op.search_queries = <<op.question>>

\* delete_transcript_index(d) has returned True (no run indexes d again
\* under SpecDelete)
Deleted(d) == PointsOf(IndexedStore, d) # <<>> /\ PointsOf(points, d) = <<>>

\* C36: after delete_transcript_index(id) returns True, no later search,
\* vector-only or hybrid, returns a chunk of document id until the document
\* is indexed again.
C36_DeletedNotReturned ==
    \A d \in Docs :
        (Deleted(d) /\ (SearchCallDone \/ HybridDone)) =>
            \A i \in 1..Len(op.results) : op.results[i].transcript_id # d

\* the vector-only half: a search without use_hybrid returns no chunk of a
\* deleted document
C36_VectorSearchForgets ==
    \A d \in Docs :
        (Deleted(d) /\ SearchCallDone /\ ~op.use_hybrid) =>
            \A i \in 1..Len(op.results) : op.results[i].transcript_id # d

\* the slots of the token list and the keys of the slot map coincide, and
\* the text of each entry tokenizes to its slot's tokens
LexicalAligned(chunks, chunk_map) ==
    /\ DOMAIN chunk_map = {k - 1 : k \in 1..Len(chunks)}
    /\ \A k \in 1..Len(chunks) : Tokenize(chunk_map[k - 1][3]) = chunks[k]

\* C38: in every reachable state of the lexical index each slot k of the
\* token list has an entry k in the slot map whose text tokenizes to that
\* slot's tokens, and the map has no other keys: after the startup rebuild,
\* also when stored points have an empty chunk_text, and after every add.
C38_LexicalAligned ==
    op.kind # "index" \/ op.pc = "done" => LexicalAligned(bm25_chunks, bm25_chunk_map)


\* no two entries of s carry the same (document_id, chunk_index)
KeysDistinct(s) == \A i \in 1..Len(s), j \in 1..Len(s) : i # j => Key(s[i]) # Key(s[j])

\* C39: the chunks answer_question passes to synthesis and returns as
\* sources are at most top_k, are drawn from the deduplicated candidate
\* pool, and never hold the same (document_id, chunk_index) twice,
\* whatever the LLM reranker replies.
C39_SourcesBoundedUnique ==
    /\ (QATurn /\ op.status = "running" /\ op.pc \in {"synthesize", "grade"}) =>
          /\ Len(op.chunks) <= op.top_k
          /\ \A i \in 1..Len(op.chunks) :
                \E k \in 1..Len(op.unique_chunks) : Key(op.unique_chunks[k]) = Key(op.chunks[i])
          /\ KeysDistinct(op.chunks)
    /\ QAReturned =>
          /\ Len(op.result.sources) <= op.top_k
          /\ KeysDistinct(op.result.sources)

\* the same without the uniqueness: the bound and the pool
C39_SourcesBoundedFromPool ==
    (QATurn /\ op.status = "running" /\ op.pc \in {"synthesize", "grade"}) =>
        /\ Len(op.chunks) <= op.top_k
        /\ \A i \in 1..Len(op.chunks) :
              \E k \in 1..Len(op.unique_chunks) : Key(op.unique_chunks[k]) = Key(op.chunks[i])

BM25SearchDone == op.kind = "bm25_search" /\ op.pc = "done"

\* the scores of the lexical slots for the query, and the slots of the
\* given documents that score above zero, best first
SlotScores(query) == GetScores(bm25_chunks, Tokenize(query))
EligibleSlots(query, transcript_ids) ==
    SelectSeq(SortDesc([i \in 1..Len(bm25_chunks) |-> i], SlotScores(query)),
              LAMBDA i : /\ SlotScores(query)[i] > 0
                         /\ (i - 1) \in DOMAIN bm25_chunk_map
                         /\ InList(bm25_chunk_map[i - 1][1], transcript_ids))

\* C40: a lexical search restricted to a set of document ids returns the
\* top-limit positively scored chunks among the chunks of those documents,
\* however many higher-scoring chunks belong to documents outside the set.
C40_FilteredLexicalTopK ==
    (BM25SearchDone /\ op.transcript_ids # <<>>) =>
        LET best == Take(EligibleSlots(op.query, op.transcript_ids), op.top_k)
        IN  /\ Len(op.results) = Len(best)
            /\ \A k \in 1..Len(op.results) :
                  /\ op.results[k].score = SlotScores(op.query)[best[k]]
                  /\ InList(op.results[k].transcript_id, op.transcript_ids)

\* the same when no more than 2 * top_k slots are in the index
C40_HoldsWithinWindow ==
    (BM25SearchDone /\ op.transcript_ids # <<>> /\ Len(bm25_chunks) <= 2 * op.top_k) =>
        LET best == Take(EligibleSlots(op.query, op.transcript_ids), op.top_k)
        IN  /\ Len(op.results) = Len(best)
            /\ \A k \in 1..Len(op.results) :
                  /\ op.results[k].score = SlotScores(op.query)[best[k]]
                  /\ InList(op.results[k].transcript_id, op.transcript_ids)

====
